---- MODULE Spec2Model ----
(***************************************************************************)
(* State-machine model of the changelog pipeline of ai-code-sessions       *)
(* (src/src/ai_code_sessions/__init__.py): the per-actor ledger and the    *)
(* generate-and-append pipeline, the window slicer and fact extractor of   *)
(* the digest builder, and the budget reducer with its selection policy.   *)
(***************************************************************************)
EXTENDS Integers, Sequences, FiniteSets, TLC

VARIABLES
    entries,      \* actor slug -> lines of .changelog/<slug>/entries.jsonl
    failures,     \* actor slug -> lines of .changelog/<slug>/failures.jsonl
    legacy,       \* run ids found in the two legacy ledgers (read only)
    inv,          \* process -> state of its pipeline invocation
    started,      \* number of invocations started so far
    sel,          \* one call of _select_budget_items: its arguments and result
    bud,          \* one call of _budget_changelog_digest: arguments, locals, result
    dig,          \* one call of _build_changelog_digest: arguments, locals, result
    bf,           \* one run of `changelog backfill`: options, loop position, counters
    ap,           \* a ledger file as written by _append_jsonl, and its writers
    rl,           \* one call of _parse_codex_rollout_jsonl: lines, position, loglines
    pt,           \* one tool_use block in _build_changelog_digest: input, locals, call
    sv            \* one call of an evaluator adapter after the process exited 0

pipeVars == <<entries, failures, legacy, inv, started>>

otherVars == <<sel, bud, dig, bf, ap, rl, pt, sv>>

vars == <<pipeVars, otherVars>>

(***************************************************************************)
(* Bounds of the model.                                                    *)
(***************************************************************************)
MaxInvocations == 2

(***************************************************************************)
(* Python text values.  A text is modelled by the few shapes the code      *)
(* distinguishes: None, empty, blank, padded and plain.                    *)
(***************************************************************************)
NONE == "<None>"

\* str.strip() on the modelled texts
Strip(s) ==
    CASE s = " " -> ""
      [] s = " Did X " -> "Did X"
      [] s = " b " -> "b"
      [] s = " n " -> "n"
      [] s = "Claude " -> "Claude"
      [] OTHER -> s

\* str.lower() on the modelled words
Lower(w) ==
    CASE w = "HTTP" -> "http"
      [] w = "Too" -> "too"
      [] w = "Many" -> "many"
      [] w = "Requests" -> "requests"
      [] w = "Claude" -> "claude"
      [] w = "Bob" -> "bob"
      [] OTHER -> w

LowerText(t) == [i \in 1..Len(t) |-> Lower(t[i])]

\* the modelled words that hold a needle as a proper part: <<word, needle>>
Infixes ==
    { <<"{\"rate_limits\":", "rate_limit">>,
      <<"error=429", "429">> }

\* needle in word
Within(word, needle) == word = needle \/ <<word, needle>> \in Infixes

\* needle in text: a one-word needle may sit inside a word of the text, a
\* longer one is a run of whole words of the text
HasPhrase(t, phrase) ==
    IF Len(phrase) = 1
    THEN \E i \in 1..Len(t) : Within(t[i], phrase[1])
    ELSE \E i \in 1..(Len(t) - Len(phrase) + 1) :
            \A k \in 1..Len(phrase) : t[i + k - 1] = phrase[k]

(***************************************************************************)
(* _truncate_text and _truncate_text_middle, on the length of the text.    *)
(* A text is [chars, ws]: its length after strip() and the number of       *)
(* whitespace characters that sit at each cut point.                       *)
(***************************************************************************)
GlueLen == 5

Max2(a, b) == IF a >= b THEN a ELSE b

Min2(a, b) == IF a <= b THEN a ELSE b

TruncateTextLen(chars, ws, max_chars) ==
    IF max_chars <= 0 THEN 0
    ELSE IF chars <= max_chars THEN chars
    ELSE Max2(0, (max_chars - 3) - ws) + 3

\* a middle truncation that does not leave room for the glue
MutTruncateTextMiddleLen(chars, ws, max_chars) ==
    IF max_chars <= 0 THEN 0
    ELSE IF chars <= max_chars THEN chars
    ELSE LET head_len == max_chars \div 2
             tail_len == max_chars - head_len
         IN  (head_len - ws) + GlueLen + (tail_len - ws)

TruncateTextMiddleLen(chars, ws, max_chars) ==
    IF max_chars <= 0 THEN 0
    ELSE IF chars <= max_chars THEN chars
    ELSE IF max_chars <= GlueLen + 10 THEN TruncateTextLen(chars, ws, max_chars)
    ELSE LET head_len == (max_chars - GlueLen) \div 2
             tail_len == max_chars - GlueLen - head_len
         IN  (head_len - ws) + GlueLen + (tail_len - ws)

(***************************************************************************)
(* Error classification.  An error text is [text, chars, ws]: its words,   *)
(* its length, and the whitespace at the cut points of a truncation.       *)
(***************************************************************************)
\* the `in lower` substring tests of both classifiers
InLower(error_text, phrase) == HasPhrase(LowerText(error_text), phrase)

LooksLikeContextWindowError(error_text) ==
    /\ Len(error_text) > 0
    /\ \/ InLower(error_text, <<"argument", "list", "too", "long">>)
       \/ /\ InLower(error_text, <<"context", "window">>)
          /\ \/ InLower(error_text, <<"ran", "out", "of", "room">>)
             \/ InLower(error_text, <<"start", "a", "new", "conversation">>)
       \/ /\ InLower(error_text, <<"context", "length">>)
          /\ \/ InLower(error_text, <<"exceeded">>)
             \/ InLower(error_text, <<"too", "long">>)
       \/ /\ InLower(error_text, <<"prompt">>)
          /\ InLower(error_text, <<"too", "long">>)

LooksLikeUsageLimitError(error_text) ==
    /\ Len(error_text) > 0
    /\ \/ InLower(error_text, <<"usage_limit_reached">>)
       \/ InLower(error_text, <<"you've", "hit", "your", "usage", "limit">>)
       \/ InLower(error_text, <<"rate_limit">>)
       \/ InLower(error_text, <<"rate", "limit">>)
       \/ InLower(error_text, <<"too", "many", "requests">>)
       \* re.search(r"\\b429\\b", lower): the raw pattern escapes the backslashes,
       \* so it matches the characters \b429\b and not a bare 429
       \/ InLower(error_text, <<"\\b429\\b">>)

(***************************************************************************)
(* Run identity and the ledger files.                                      *)
(***************************************************************************)
\* Path.resolve() on the modelled session directories
Resolve(path) == IF path = "out/s1" THEN "/abs/out/s1" ELSE path

\* the hash is taken as injective on the payload it is computed from
ComputeRunId(tool, start, end, session_dir, source_jsonl) ==
    <<IF tool = "" THEN "unknown" ELSE tool, start, end, session_dir, source_jsonl>>

SlugifyActor(actor) ==
    LET value == Lower(Strip(actor))
    IN  IF value = "" THEN "unknown" ELSE value

Slugs == {"bob", "eve"}

Range(seq) == {seq[i] : i \in 1..Len(seq)}

\* a reader that finds no run id in the file
MutLoadExistingRunIds(lines) == {}

\* _load_existing_run_ids, lines 903-922
LoadExistingRunIds(lines) == {line.run_id : line \in Range(lines)}

\* an existence check that reads the actor's own ledger only
MutExistingRunIds(ents, leg, actor_slug) == LoadExistingRunIds(ents[actor_slug])

\* an existence check that reads the failures log as well
MutExistingOrFailed(ents, leg, actor_slug) ==
    LoadExistingRunIds(ents[actor_slug])
        \cup leg.root
        \cup {pr[2] : pr \in {q \in leg.actors : q[1] = actor_slug}}
        \cup LoadExistingRunIds(failures[actor_slug])

\* the three ledgers the existence check reads
ExistingRunIds(ents, leg, actor_slug) ==
    LoadExistingRunIds(ents[actor_slug])
        \cup leg.root
        \cup {pr[2] : pr \in {q \in leg.actors : q[1] = actor_slug}}

ParseIso8601Ok(value) == value # ""
(***************************************************************************)
(* The pipeline _generate_and_append_changelog_entry.                      *)
(***************************************************************************)
FailureErrorMax == 2000

Tools == {"", "codex"}

Starts == {"", "t1"}

SessionDirs == {"out/s1"}

Actors == {"Bob", "eve"}

Evaluators == {"codex", "Claude ", "bogus"}

RunArgs ==
    [tool : Tools, start : Starts, end : {"t2"}, session_dir : SessionDirs,
     source_jsonl : {"a.jsonl"}, actor : Actors, halt_on_429 : BOOLEAN]

NoArgs ==
    [tool |-> "", start |-> "", end |-> "", session_dir |-> "",
     source_jsonl |-> "", actor |-> "", halt_on_429 |-> FALSE]

Err(text, chars, ws) == [text |-> text, chars |-> chars, ws |-> ws]

NoError == Err(<<>>, 0, 0)

\* what the evaluator subprocess can answer with: exceptions ...
EvalErrors ==
    { Err(<<"boom">>, 4, 0),
      Err(<<"context", "window", "ran", "out", "of", "room">>, FailureErrorMax + 1, 1),
      Err(<<"HTTP", "429", "Too", "Many", "Requests">>, FailureErrorMax, 0),
      Err(<<"prompt", "too", "long", "rate", "limit">>, 2 * FailureErrorMax, 0) }

\* the error texts of tests/test_changelog_usage_limit_detection.py and of
\* tests/test_changelog_evaluator_errors.py
UsageLimitErrors ==
    { Err(<<"boom">>, 4, 0),
      Err(<<"{\"rate_limits\":", "{\"primary\":", "{\"used_percent\":", "12.0}}}">>, 53, 0),
      Err(<<"HTTP", "429", "Too", "Many", "Requests">>, 26, 0),
      Err(<<"usage_limit_reached">>, 19, 0),
      Err(<<"error=429">>, 9, 0) }

\* ... or an output object; bullets is [list, items]
Out(summary, isList, items, notes) ==
    [summary |-> summary, bullets |-> [list |-> isList, items |-> items], notes |-> notes]

NoOut == Out(NONE, FALSE, <<>>, NONE)

EvalOutputs ==
    { Out(" Did X ", TRUE, <<" b ">>, NONE),
      Out(" ", TRUE, <<"b">>, NONE),
      Out(NONE, TRUE, <<"b">>, NONE),
      Out("Did X", TRUE, <<>>, NONE),
      Out("Did X", FALSE, <<>>, NONE) }

IdleInv ==
    [pc |-> "idle", args |-> NoArgs, run_id |-> <<>>, slug |-> "",
     evaluator |-> "", halt_on_429 |-> FALSE, calls |-> <<>>, out |-> NoOut,
     status |-> "", error |-> NoError, existing |-> {},
     entries0 |-> <<>>, failures0 |-> <<>>]

\* the sequential pipeline runs in one process
Procs == {1}

LegacyRun == ComputeRunId("codex", "t1", "t2", "/abs/out/s1", "a.jsonl")

Legacies ==
    { [root |-> {}, actors |-> {}],
      [root |-> {LegacyRun}, actors |-> {}],
      [root |-> {}, actors |-> {<<"bob", LegacyRun>>}] }

EmptyLedgers == [s \in Slugs |-> <<>>]

IdleInvs == [p \in Procs |-> IdleInv]

\* lines 2188-2209: run id, existence check, short-circuit on a known run id
InvokeOn(p, a) ==
    /\ inv[p].pc \in {"idle", "done"}
    /\ started < MaxInvocations
    /\ started' = started + 1
    /\ LET actor_slug == SlugifyActor(a.actor)
           run_id == ComputeRunId(a.tool, a.start, a.end, Resolve(a.session_dir),
                                  a.source_jsonl)
           existing == ExistingRunIds(entries, legacy, actor_slug)
           fresh == [IdleInv EXCEPT !.args = a, !.run_id = run_id, !.slug = actor_slug,
                                    !.halt_on_429 = a.halt_on_429,
                                    !.existing = existing,
                                    !.entries0 = entries[actor_slug],
                                    !.failures0 = failures[actor_slug]]
       IN  inv' = [inv EXCEPT ![p] =
                IF run_id \in existing
                THEN [fresh EXCEPT !.pc = "done", !.status = "exists"]
                ELSE [fresh EXCEPT !.pc = "digest"]]
    /\ UNCHANGED <<entries, failures, legacy>>

\* a call from the command line (ctx, changelog since)
Invoke(p, a) == InvokeOn(p, a) /\ UNCHANGED otherVars

\* _write_changelog_failure, lines 2109-2140
FailurePayload(i, err) ==
    [run_id |-> i.run_id,
     tool |-> IF i.args.tool = "" THEN "unknown" ELSE i.args.tool,
     actor |-> i.args.actor,
     session_dir |-> i.args.session_dir,
     error |-> [text |-> err.text,
                chars |-> TruncateTextMiddleLen(err.chars, err.ws, FailureErrorMax)]]

\* the except clause, lines 2311-2328, entered from invocation state i;
\* the argument halt_on_429 is read only here
Fail(p, i, err, halt_on_429) ==
    /\ failures' = [failures EXCEPT ![i.slug] = Append(@, FailurePayload(i, err))]
    /\ inv' = [inv EXCEPT ![p] =
                [i EXCEPT !.pc = "done", !.error = err, !.halt_on_429 = halt_on_429,
                          !.status =
                              IF halt_on_429 /\ LooksLikeUsageLimitError(err.text)
                              THEN "rate_limited" ELSE "failed"]]
    /\ UNCHANGED <<entries, legacy, started>>

EvaluatorValue(evaluator) == Lower(Strip(IF evaluator = "" THEN "codex" ELSE evaluator))

\* lines 2212-2221: the digest is built, then the evaluator name is checked
BuildDigest(p) ==
    /\ inv[p].pc = "digest"
    /\ UNCHANGED otherVars
    /\ \E readable \in BOOLEAN, evaluator \in Evaluators :
        IF ~ParseIso8601Ok(inv[p].args.start) \/ ~ParseIso8601Ok(inv[p].args.end)
        THEN Fail(p, inv[p], Err(<<"Invalid", "start/end", "timestamps">>, 52, 0), inv[p].halt_on_429)
        ELSE IF ~readable
        THEN Fail(p, inv[p], Err(<<"No", "such", "file">>, 25, 0), inv[p].halt_on_429)
        ELSE IF EvaluatorValue(evaluator) \notin {"codex", "claude"}
        THEN Fail(p, inv[p], Err(<<"Unknown", "changelog", "evaluator">>, 34, 0), inv[p].halt_on_429)
        ELSE /\ inv' = [inv EXCEPT ![p].pc = "eval",
                                   ![p].evaluator = EvaluatorValue(evaluator)]
             /\ UNCHANGED <<entries, failures, legacy, started>>
\* one evaluator call of _run_eval on digest d: it is recorded, then it either
\* returns an output object or raises
EvalCall(d, err) == [digest |-> d, error |-> err]
WithCall(i, d, err) == [i EXCEPT !.calls = Append(@, EvalCall(d, err))]

\* lines 2247-2255: the first call, to an evaluator that answers with one of
\* outputs or raises one of errors; a context-window error leads to the retry
RunEvalOn(p, outputs, errors) ==
    /\ inv[p].pc = "eval"
    /\ \/ \E out \in outputs :
            /\ inv' = [inv EXCEPT ![p] =
                        [WithCall(inv[p], "full", NoError) EXCEPT
                            !.pc = "validate", !.out = out]]
            /\ UNCHANGED <<entries, failures, legacy, started>>
       \/ \E err \in errors :
            IF LooksLikeContextWindowError(err.text)
            THEN /\ inv' = [inv EXCEPT ![p] =
                        [WithCall(inv[p], "full", err) EXCEPT !.pc = "retry"]]
                 /\ UNCHANGED <<entries, failures, legacy, started>>
            ELSE Fail(p, WithCall(inv[p], "full", err), err, inv[p].halt_on_429)

RunEval(p) == RunEvalOn(p, EvalOutputs, EvalErrors) /\ UNCHANGED otherVars

\* a retry that sends the same digest again
MutRetryDigest == "full"

\* line 2253: the digest of the second call is _budget_changelog_digest(digest)
RetryDigest == "budget"

\* line 2253: the second call; what it raises reaches the except clause
RetryEvalOn(p, outputs, errors) ==
    /\ inv[p].pc = "retry"
    /\ \/ \E out \in outputs :
            /\ inv' = [inv EXCEPT ![p] =
                        [WithCall(inv[p], RetryDigest, NoError) EXCEPT
                            !.pc = "validate", !.out = out]]
            /\ UNCHANGED <<entries, failures, legacy, started>>
       \/ \E err \in errors :
            Fail(p, WithCall(inv[p], RetryDigest, err), err, inv[p].halt_on_429)

RetryEval(p) == RetryEvalOn(p, EvalOutputs, EvalErrors) /\ UNCHANGED otherVars

MaxBullets == 12

RECURSIVE StripNonEmpty(_)
\* [str(b).strip() for b in items if str(b).strip()]
StripNonEmpty(items) ==
    IF items = <<>> THEN <<>>
    ELSE LET rest == StripNonEmpty(Tail(items))
         IN  IF Strip(Head(items)) # "" THEN <<Strip(Head(items))>> \o rest ELSE rest

Take(seq, n) == SubSeq(seq, 1, Min2(n, Len(seq)))

\* _now_iso8601(), lines 866-867: the clock when the entry is assembled, which
\* is after the end of the run
NowIso8601 == "t3"

\* lines 2281-2307
Entry(i) ==
    [run_id |-> i.run_id,
     created_at |-> NowIso8601,
     tool |-> IF i.args.tool = "" THEN "unknown" ELSE i.args.tool,
     actor |-> i.args.actor,
     start |-> i.args.start,
     end |-> i.args.end,
     session_dir |-> Resolve(i.args.session_dir),
     summary |-> Strip(i.out.summary),
     bullets |-> Take(StripNonEmpty(i.out.bullets.items), MaxBullets),
     notes |-> IF i.out.notes # NONE /\ Strip(i.out.notes) # ""
               THEN Strip(i.out.notes) ELSE NONE]

\* lines 2263-2310: validation of the evaluator output, then the append
ValidateAndAppend(p) ==
    /\ inv[p].pc = "validate"
    /\ UNCHANGED otherVars
    /\ LET out == inv[p].out
       IN  IF out.summary = NONE \/ Strip(out.summary) = ""
            THEN Fail(p, inv[p], Err(<<"output", "missing", "summary">>, 28, 0), inv[p].halt_on_429)
            ELSE IF ~out.bullets.list \/ out.bullets.items = <<>>
            THEN Fail(p, inv[p], Err(<<"output", "missing", "bullets">>, 28, 0), inv[p].halt_on_429)
            ELSE /\ entries' = [entries EXCEPT ![inv[p].slug] = Append(@, Entry(inv[p]))]
                 /\ inv' = [inv EXCEPT ![p].pc = "done", ![p].status = "appended"]
                 /\ UNCHANGED <<failures, legacy, started>>

PipeNext ==
    \E p \in Procs :
        \/ \E a \in RunArgs : Invoke(p, a)
        \/ BuildDigest(p)
        \/ RunEval(p)
        \/ RetryEval(p)
        \/ ValidateAndAppend(p)

IdleSel == [pc |-> "idle"]

IdleBud == [pc |-> "idle"]

IdleDig == [pc |-> "idle"]

IdleBf == [pc |-> "idle"]

IdleAp == [pc |-> "idle"]

IdleRl == [pc |-> "idle"]

IdlePt == [pc |-> "idle"]

IdleSv == [pc |-> "idle"]

Init ==
    /\ entries = EmptyLedgers
    /\ failures = EmptyLedgers
    /\ legacy \in Legacies
    /\ inv = IdleInvs
    /\ started = 0
    /\ sel = IdleSel
    /\ bud = IdleBud
    /\ dig = IdleDig
    /\ bf = IdleBf
    /\ ap = IdleAp
    /\ rl = IdleRl
    /\ pt = IdlePt
    /\ sv = IdleSv

Next == PipeNext

\* sequential invocations of the pipeline on one project's ledgers
Spec == Init /\ [][Next]_vars

(***************************************************************************)
(* Claims about the pipeline, checked under Spec.                          *)
(***************************************************************************)
FailedStatus == {"failed", "rate_limited"}

Count(seq, rid) == Cardinality({k \in 1..Len(seq) : seq[k].run_id = rid})

\* C1: after any sequence of sequential invocations every run id occurs at most
\* once in each actor's entries ledger, and an invocation whose run id was
\* already in that ledger returns "exists" and leaves the ledger as it was.
C1_LedgerIdempotent ==
    /\ \A s \in Slugs : \A k \in 1..Len(entries[s]) :
            Count(entries[s], entries[s][k].run_id) = 1
    /\ \A p \in Procs :
        (inv[p].pc = "done" /\ Count(inv[p].entries0, inv[p].run_id) > 0)
            => /\ inv[p].status = "exists"
               /\ entries[inv[p].slug] = inv[p].entries0

\* a second invocation of a run whose entry the first one appended
C1_Witness ==
    \E p \in Procs :
        /\ inv[p].pc = "done" /\ inv[p].status = "exists"
        /\ started = 2
        /\ Len(entries[inv[p].slug]) = 1
        /\ entries[inv[p].slug][1].run_id = inv[p].run_id

\* the code's test of an evaluator output, lines 2268-2271
OutputInvalid(out) ==
    \/ out.summary = NONE
    \/ out.summary \in {"", " "}
    \/ ~out.bullets.list
    \/ out.bullets.items = <<>>

\* C2: an invocation in which the digest, an evaluator call or the validation
\* failed ends with status failed or rate_limited, its entries ledger unchanged
\* and exactly one record more in the failures log, carrying the run id, the
\* tool, the session path and the error text cut to at most 2000 characters.
C2_FailureNeverAppends ==
    \A p \in Procs :
        LET i == inv[p]
            n == Len(failures[i.slug])
            failed == \/ i.error # NoError
                      \/ (i.calls # <<>> /\ i.calls[Len(i.calls)].error # NoError
                            /\ i.pc # "retry")
                      \/ (i.out # NoOut /\ OutputInvalid(i.out))
        IN  /\ (i.pc = "done" /\ failed) => i.status \in FailedStatus
            /\ (i.pc = "done" /\ i.status \in FailedStatus) =>
                /\ entries[i.slug] = i.entries0
                /\ n = Len(i.failures0) + 1
                /\ SubSeq(failures[i.slug], 1, n - 1) = i.failures0
                /\ failures[i.slug][n].run_id = i.run_id
                /\ failures[i.slug][n].tool = (IF i.args.tool = "" THEN "unknown" ELSE i.args.tool)
                /\ failures[i.slug][n].session_dir = i.args.session_dir
                /\ failures[i.slug][n].error.text = i.error.text
                /\ failures[i.slug][n].error.chars <= FailureErrorMax

\* a failure with an over-long error text, after an entry was appended
C2_Witness ==
    \E p \in Procs :
        /\ inv[p].pc = "done" /\ inv[p].status = "rate_limited"
        /\ inv[p].error.chars > FailureErrorMax
        /\ Len(inv[p].entries0) = 1
        /\ Len(failures[inv[p].slug]) = 1

\* C4: the evaluator is called at most twice in an invocation; the first call
\* gets the full digest; a second call happens only after a first call that
\* failed with a context-window error, and gets the budgeted digest; any other
\* failure of the first call, and any failure of the second, ends the
\* invocation with a failure record for that error.
C4_RetryPolicy ==
    \A p \in Procs :
        LET i == inv[p]
            c == i.calls
            ctx(e) == e \in {x \in EvalErrors :
                        \/ HasPhrase(x.text, <<"context", "window", "ran", "out", "of", "room">>)
                        \/ HasPhrase(x.text, <<"prompt", "too", "long">>)}
        IN  /\ Len(c) <= 2
            /\ Len(c) >= 1 => c[1].digest = "full"
            /\ Len(c) = 2 => (ctx(c[1].error) /\ c[2].digest = "budget")
            /\ i.pc = "retry" <=> (Len(c) = 1 /\ ctx(c[1].error))
            /\ (Len(c) = 1 /\ c[1].error # NoError /\ ~ctx(c[1].error)) =>
                    (i.pc = "done" /\ i.status \in FailedStatus /\ i.error = c[1].error)
            /\ (Len(c) = 2 /\ c[2].error # NoError) =>
                    (i.pc = "done" /\ i.status \in FailedStatus /\ i.error = c[2].error)
            /\ (i.pc = "done" /\ i.status \in FailedStatus) =>
                    Len(failures[i.slug]) = Len(i.failures0) + 1

\* a retry that failed with a context-window error again: no third call
C4_Witness ==
    \E p \in Procs :
        /\ inv[p].pc = "done" /\ inv[p].status = "failed"
        /\ Len(inv[p].calls) = 2
        /\ LooksLikeContextWindowError(inv[p].calls[2].error.text)
(***************************************************************************)
(* _select_budget_items.  An item is modelled by its score int(score_fn);  *)
(* a selection is the set of the kept positions (1-based).                 *)
(***************************************************************************)
MaxItems == 5

MaxScore == 1

MaxHead == 2

MaxTail == 2

\* bookends with one more head item than asked for
MutBookends(n, always_head, always_tail) ==
    (1..Min2(always_head + 1, n)) \cup ((Max2(0, n - always_tail) + 1)..n)

\* lines 1677-1681: the positions always kept
Bookends(n, always_head, always_tail) ==
    (1..Min2(always_head, n)) \cup ((Max2(0, n - always_tail) + 1)..n)

RECURSIVE CutSearch(_, _, _, _)
\* the largest c in lo..hi with at least k elements of S at or after c
CutSearch(S, lo, hi, k) ==
    IF lo >= hi THEN lo
    ELSE LET mid == (lo + hi + 1) \div 2
         IN  IF Cardinality({j \in S : j >= mid}) >= k
             THEN CutSearch(S, mid, hi, k)
             ELSE CutSearch(S, lo, mid - 1, k)

\* the k largest elements of S, a set of positions in 1..n
Latest(S, n, k) ==
    IF k <= 0 THEN {}
    ELSE IF k >= Cardinality(S) THEN S
    ELSE LET cut == CutSearch(S, 1, n, k) IN {i \in S : i >= cut}

\* lines 1685-1695: the positions in scored[:remaining], where scored is the rest
\* as (score, position) pairs sorted in descending order: of every score the
\* latest positions that still fit after all the higher scores
TopScored(scores, rest, remaining) ==
    LET level(v) == {j \in rest : scores[j] = v}
        above(v) == Cardinality({j \in rest : scores[j] > v})
    IN  UNION { Latest(level(v), Len(scores), remaining - above(v)) :
                    v \in {scores[j] : j \in rest} }

\* a selection that drops the tail bookend
MutSelectBudgetKeep(scores, max_items, always_head, always_tail) ==
    IF max_items <= 0 THEN {}
    ELSE IF Len(scores) <= max_items THEN 1..Len(scores)
    ELSE 1..Min2(max_items, Len(scores))

\* lines 1672-1697: the set `keep`
SelectBudgetKeep(scores, max_items, always_head, always_tail) ==
    IF max_items <= 0 THEN {}
    ELSE IF Len(scores) <= max_items THEN 1..Len(scores)
    ELSE LET keep == Bookends(Len(scores), always_head, always_tail)
             rest == {i \in 1..Len(scores) : i \notin keep}
             remaining == max_items - Cardinality(keep)
         IN  IF remaining > 0
             THEN keep \cup TopScored(scores, rest, remaining)
             ELSE keep

\* sorted(keep)
Sorted(S) ==
    [k \in 1..Cardinality(S) |->
        CHOOSE x \in S : Cardinality({y \in S : y < x}) = k - 1]

\* line 1697: [items[i] for i in sorted(keep)], as the kept positions in order
SelectBudgetItems(scores, max_items, always_head, always_tail) ==
    Sorted(SelectBudgetKeep(scores, max_items, always_head, always_tail))

ScoreLists == UNION {[1..n -> 0..MaxScore] : n \in 0..MaxItems}

InitSelect ==
    /\ entries = EmptyLedgers
    /\ failures = EmptyLedgers
    /\ legacy = [root |-> {}, actors |-> {}]
    /\ inv = IdleInvs
    /\ started = 0
    /\ bud = IdleBud
    /\ dig = IdleDig
    /\ \E scores \in ScoreLists, m \in 0..MaxItems, h \in 0..MaxHead, t \in 0..MaxTail :
            sel = [pc |-> "call", items |-> scores, max_items |-> m,
                   always_head |-> h, always_tail |-> t, out |-> <<>>]
    /\ bf = IdleBf
    /\ ap = IdleAp
    /\ rl = IdleRl
    /\ pt = IdlePt
    /\ sv = IdleSv

Select ==
    /\ sel.pc = "call"
    /\ sel' = [sel EXCEPT !.pc = "returned",
                          !.out = SelectBudgetItems(sel.items, sel.max_items,
                                                    sel.always_head, sel.always_tail)]
    /\ UNCHANGED <<pipeVars, bf, ap, rl, pt, sv, bud, dig>>

\* one call of _select_budget_items on every bounded argument list
SpecSelect == InitSelect /\ [][Select]_vars
(***************************************************************************)
(* Claims about the selection, checked under SpecSelect.                   *)
(***************************************************************************)
SelN == Len(sel.items)

SelBook == Bookends(SelN, sel.always_head, sel.always_tail)

SelKept == Range(sel.out)

SelRest == (1..SelN) \ SelBook

\* the selection policy of C7 on the returned list
SelectionPolicy ==
    /\ SelBook \subseteq SelKept
    /\ SelKept \subseteq 1..SelN
    /\ Cardinality(SelKept \ SelBook) = Max2(0, sel.max_items - Cardinality(SelBook))
    /\ \A i \in SelKept \ SelBook, j \in SelRest \ SelKept :
            sel.items[i] >= sel.items[j]
    /\ \A k \in 1..(Len(sel.out) - 1) : sel.out[k] < sel.out[k + 1]

\* C7 as stated: for every cap M < N the result keeps the first head and the
\* last tail items, fills the remaining capacity with the highest-scoring of
\* the rest, and is in the original order.
C7_AnyCap ==
    (sel.pc = "returned" /\ sel.max_items < SelN) => SelectionPolicy

\* C7 as amended: the same for every cap 0 < M < N (a cap of 0 returns the
\* empty list, bookends included).
C7_PositiveCap ==
    (sel.pc = "returned" /\ 0 < sel.max_items /\ sel.max_items < SelN) => SelectionPolicy

\* a call where a later, higher-scoring middle item is kept and an earlier,
\* lower-scoring one is dropped
C7_Witness ==
    /\ sel.pc = "returned"
    /\ 0 < sel.max_items /\ sel.max_items < SelN
    /\ Cardinality(SelBook) > 0
    /\ \E i \in SelKept \ SelBook, j \in SelRest \ SelKept :
            j < i /\ sel.items[i] > sel.items[j]

\* C8: of several middle items with the same score that do not all fit, the
\* ones kept are those with the earliest original index.
C8_TiesKeepEarliest ==
    (sel.pc = "returned" /\ 0 < sel.max_items /\ sel.max_items < SelN) =>
        \A i \in SelRest, j \in SelRest :
            (i < j /\ sel.items[i] = sel.items[j] /\ j \in SelKept) => i \in SelKept
(***************************************************************************)
(* _budget_changelog_digest.  The digest is modelled by the scores of its  *)
(* user prompts and tool calls and the numbers of its assistant snippets   *)
(* and tool errors; a budgeted digest by the positions it keeps of each.   *)
(***************************************************************************)
MaxPromptBlocks == 2

MaxCallBlocks == 3

MaxAssistantBlocks == 1

MaxErrorBlocks == 2

MaxSizeSteps == 8

LoopPasses == 6

DefaultMaxUserPrompts == 30

DefaultMaxToolCalls == 200

DefaultMaxAssistantText == 4

DefaultMaxToolErrors == 20

FloorToolCalls == 50

FloorUserPrompts == 15

FloorAssistantText == 2

FloorToolErrors == 10

PromptHead == 5

PromptTail == 10

CallHead == 10

CallTail == 10

\* lines 1759-1762 and 1766-1769: items[-n:] if n > 0 else []
LastN(n, k) == IF k > 0 THEN (Max2(0, n - k) + 1)..n ELSE {}

\* _budget_changelog_digest_once, lines 1724-1806
BudgetOnce(digest, max_user_prompts, max_tool_calls, max_assistant_text, max_tool_errors) ==
    [user_prompts |-> SelectBudgetKeep(digest.user_prompts, max_user_prompts,
                                       PromptHead, PromptTail),
     assistant_text |-> LastN(digest.assistant_text, max_assistant_text),
     tool_errors |-> LastN(digest.tool_errors, max_tool_errors),
     tool_calls |-> SelectBudgetKeep(digest.tool_calls, max_tool_calls,
                                     CallHead, CallTail)]

\* len(json.dumps(last)): what no pass reduces, plus one unit for every item kept
SerializedSize(digest, last) ==
    digest.fixed + Cardinality(last.user_prompts) + Cardinality(last.assistant_text)
        + Cardinality(last.tool_errors) + Cardinality(last.tool_calls)

PatternScores(n, seed) == [i \in 1..n |-> (i * seed) % 3]

BudgetDigests ==
    { [user_prompts |-> PatternScores(18 * np, seed),
       tool_calls |-> PatternScores(70 * nc, seed),
       assistant_text |-> 1 + 4 * na,
       tool_errors |-> 12 * ne,
       fixed |-> 0] :
        np \in 0..MaxPromptBlocks, nc \in 0..MaxCallBlocks,
        na \in 0..MaxAssistantBlocks, ne \in 0..MaxErrorBlocks, seed \in {0, 1} }

\* a prompt budget below the 15 bookends of the prompt selection
SmallMaxUserPrompts == 10

\* the sub-budgets a caller passes: the defaults, budgets already at the floor,
\* or a prompt budget below it
BudgetArgs ==
    { [max_user_prompts |-> mu, max_tool_calls |-> mc,
       max_assistant_text |-> DefaultMaxAssistantText,
       max_tool_errors |-> DefaultMaxToolErrors] :
        mu \in {DefaultMaxUserPrompts, FloorUserPrompts, SmallMaxUserPrompts},
        mc \in {DefaultMaxToolCalls, FloorToolCalls} }

DefaultBudgetArgs ==
    [max_user_prompts |-> DefaultMaxUserPrompts, max_tool_calls |-> DefaultMaxToolCalls,
     max_assistant_text |-> DefaultMaxAssistantText,
     max_tool_errors |-> DefaultMaxToolErrors]

NoLast == [user_prompts |-> {}, assistant_text |-> {}, tool_errors |-> {}, tool_calls |-> {}]

InitBudget ==
    /\ entries = EmptyLedgers
    /\ failures = EmptyLedgers
    /\ legacy = [root |-> {}, actors |-> {}]
    /\ inv = IdleInvs
    /\ started = 0
    /\ sel = IdleSel
    /\ dig = IdleDig
    /\ \E d \in BudgetDigests, a \in BudgetArgs, k \in 0..MaxSizeSteps :
            bud = [pc |-> "call", digest |-> d, args |-> a, max_chars |-> 35 * k,
                   budget_user |-> 0, budget_calls |-> 0, budget_assistant |-> 0,
                   budget_errors |-> 0, pass |-> 0, shrinks |-> <<>>,
                   prev |-> NoLast, last |-> NoLast]
    /\ bf = IdleBf
    /\ ap = IdleAp
    /\ rl = IdleRl
    /\ pt = IdlePt
    /\ sv = IdleSv

\* lines 1818-1829: the first _budget_changelog_digest_once, on the given budgets
BudgetCall ==
    /\ bud.pc = "call"
    /\ bud' = [bud EXCEPT
            !.pc = "loop",
            !.budget_user = bud.args.max_user_prompts,
            !.budget_calls = bud.args.max_tool_calls,
            !.budget_assistant = bud.args.max_assistant_text,
            !.budget_errors = bud.args.max_tool_errors,
            !.last = BudgetOnce(bud.digest, bud.args.max_user_prompts,
                                bud.args.max_tool_calls, bud.args.max_assistant_text,
                                bud.args.max_tool_errors)]
    /\ UNCHANGED <<pipeVars, bf, ap, rl, pt, sv, sel, dig>>

MutShrink(b) ==
    IF b.budget_calls > FloorToolCalls
    THEN [b EXCEPT !.budget_calls = Max2(FloorToolCalls, b.budget_calls \div 2),
                   !.shrinks = Append(@, "tool_calls")]
    ELSE IF b.budget_user > FloorUserPrompts
    THEN [b EXCEPT !.budget_user = Max2(FloorUserPrompts, b.budget_user + 5),
                   !.shrinks = Append(@, "user_prompts")]
    ELSE b

MutShrinkOrder(b) ==
    IF b.budget_user > FloorUserPrompts
    THEN [b EXCEPT !.budget_user = Max2(FloorUserPrompts, b.budget_user - 5),
                   !.shrinks = Append(@, "user_prompts")]
    ELSE IF b.budget_calls > FloorToolCalls
    THEN [b EXCEPT !.budget_calls = Max2(FloorToolCalls, b.budget_calls \div 2),
                   !.shrinks = Append(@, "tool_calls")]
    ELSE IF b.budget_assistant > FloorAssistantText
    THEN [b EXCEPT !.budget_assistant = FloorAssistantText,
                   !.shrinks = Append(@, "assistant_text")]
    ELSE IF b.budget_errors > FloorToolErrors
    THEN [b EXCEPT !.budget_errors = FloorToolErrors,
                   !.shrinks = Append(@, "tool_errors")]
    ELSE b
\* lines 1838-1847: the knob one pass lowers, as the budgets after it
Shrink(b) ==
    IF b.budget_calls > FloorToolCalls
    THEN [b EXCEPT !.budget_calls = Max2(FloorToolCalls, b.budget_calls \div 2),
                   !.shrinks = Append(@, "tool_calls")]
    ELSE IF b.budget_user > FloorUserPrompts
    THEN [b EXCEPT !.budget_user = Max2(FloorUserPrompts, b.budget_user - 5),
                   !.shrinks = Append(@, "user_prompts")]
    ELSE IF b.budget_assistant > FloorAssistantText
    THEN [b EXCEPT !.budget_assistant = FloorAssistantText,
                   !.shrinks = Append(@, "assistant_text")]
    ELSE IF b.budget_errors > FloorToolErrors
    THEN [b EXCEPT !.budget_errors = FloorToolErrors,
                   !.shrinks = Append(@, "tool_errors")]
    ELSE b

\* lines 1830-1836: a pass that finds the digest within max_chars
LoopFits ==
    /\ bud.pc = "loop" /\ bud.pass < LoopPasses
    /\ SerializedSize(bud.digest, bud.last) <= bud.max_chars
    /\ bud' = [bud EXCEPT !.pc = "returned"]
    /\ UNCHANGED <<pipeVars, bf, ap, rl, pt, sv, sel, dig>>

\* lines 1838-1855: a pass that lowers one knob and builds the digest again
LoopShrink ==
    /\ bud.pc = "loop" /\ bud.pass < LoopPasses
    /\ SerializedSize(bud.digest, bud.last) > bud.max_chars
    /\ Shrink(bud) # bud
    /\ LET b == Shrink(bud)
       IN  bud' = [b EXCEPT !.pass = bud.pass + 1,
                            !.prev = bud.last,
                            !.last = BudgetOnce(b.digest, b.budget_user, b.budget_calls,
                                                b.budget_assistant, b.budget_errors)]
    /\ UNCHANGED <<pipeVars, bf, ap, rl, pt, sv, sel, dig>>

\* lines 1846-1847: every knob is at its floor
LoopFloor ==
    /\ bud.pc = "loop" /\ bud.pass < LoopPasses
    /\ SerializedSize(bud.digest, bud.last) > bud.max_chars
    /\ Shrink(bud) = bud
    /\ bud' = [bud EXCEPT !.pc = "returned"]
    /\ UNCHANGED <<pipeVars, bf, ap, rl, pt, sv, sel, dig>>

\* line 1830 and 1857: range(6) is exhausted
LoopEnd ==
    /\ bud.pc = "loop" /\ bud.pass = LoopPasses
    /\ bud' = [bud EXCEPT !.pc = "returned"]
    /\ UNCHANGED <<pipeVars, bf, ap, rl, pt, sv, sel, dig>>

BudNext == BudgetCall \/ LoopFits \/ LoopShrink \/ LoopFloor \/ LoopEnd

\* one call of _budget_changelog_digest on every bounded digest
SpecBudget == InitBudget /\ [][BudNext]_vars
(***************************************************************************)
(* Claims about the budget reducer, checked under SpecBudget.              *)
(***************************************************************************)
FloorForm(digest) ==
    BudgetOnce(digest, FloorUserPrompts, FloorToolCalls, FloorAssistantText,
               FloorToolErrors)

\* C5: called with the default sub-budgets, the reducer returns within 6
\* shrink passes, and what it returns either fits max_chars or is the digest
\* built with every knob at its floor (50 calls, 15 prompts, 2 snippets,
\* 10 tool errors).
C5_FitsOrFloorForm ==
    (bud.pc = "returned" /\ bud.args = DefaultBudgetArgs) =>
        /\ Len(bud.shrinks) <= LoopPasses
        /\ \/ SerializedSize(bud.digest, bud.last) <= bud.max_chars
           \/ bud.last = FloorForm(bud.digest)

\* C6: every pass after the first selects, of each kind of item, a subset of
\* what the pass before it selected, so the size never grows.
C6_PassesOnlyShrink ==
    (bud.pc \in {"loop", "returned"} /\ bud.pass > 0) =>
        /\ bud.last.user_prompts \subseteq bud.prev.user_prompts
        /\ bud.last.tool_calls \subseteq bud.prev.tool_calls
        /\ bud.last.assistant_text \subseteq bud.prev.assistant_text
        /\ bud.last.tool_errors \subseteq bud.prev.tool_errors
        /\ SerializedSize(bud.digest, bud.last) <= SerializedSize(bud.digest, bud.prev)

\* a pass that lowered the prompt budget and dropped scored middle prompts
\* while keeping others
C6_Witness ==
    /\ bud.pc = "loop" /\ bud.pass > 0
    /\ bud.shrinks[Len(bud.shrinks)] = "user_prompts"
    /\ bud.last.user_prompts # bud.prev.user_prompts
    /\ \E i \in bud.last.user_prompts :
            i \notin Bookends(Len(bud.digest.user_prompts), PromptHead, PromptTail)
\* the budgets of the four knobs, in the order the loop tries them
Knobs(b) == <<b.budget_calls, b.budget_user, b.budget_assistant, b.budget_errors>>
KnobFloors == <<FloorToolCalls, FloorUserPrompts, FloorAssistantText, FloorToolErrors>>
KnobNames == <<"tool_calls", "user_prompts", "assistant_text", "tool_errors">>
\* C24: a pass lowers a knob only while the digest just measured is over
\* max_chars, and then exactly one knob: the first, in the order tool calls,
\* prompts, assistant text, tool errors, that is still above its floor (tool
\* calls halved, prompts lowered by 5, the other two clamped, none below its
\* floor); the digest is built again on the new budgets, and what is returned
\* is the digest last built, so no knob is lowered after the digest fits.
C24_ShrinkOrder ==
    [][ /\ Knobs(bud') # Knobs(bud) /\ bud.pc = "loop"
            => /\ SerializedSize(bud.digest, bud.last) > bud.max_chars
               /\ \E k \in 1..4 :
                    /\ \A j \in 1..(k - 1) : Knobs(bud)[j] <= KnobFloors[j]
                    /\ Knobs(bud)[k] > KnobFloors[k]
                    /\ Knobs(bud')[k] < Knobs(bud)[k]
                    /\ Knobs(bud')[k] >= KnobFloors[k]
                    /\ k = 1 => Knobs(bud')[k] = Max2(FloorToolCalls, Knobs(bud)[k] \div 2)
                    /\ k = 2 => Knobs(bud')[k] = Max2(FloorUserPrompts, Knobs(bud)[k] - 5)
                    /\ k > 2 => Knobs(bud')[k] = KnobFloors[k]
                    /\ \A j \in 1..4 : j # k => Knobs(bud')[j] = Knobs(bud)[j]
                    /\ bud'.shrinks = Append(bud.shrinks, KnobNames[k])
               /\ bud'.last = BudgetOnce(bud.digest, bud'.budget_user, bud'.budget_calls,
                                         bud'.budget_assistant, bud'.budget_errors)
        /\ (bud.pc = "loop" /\ bud.pass < LoopPasses
                /\ SerializedSize(bud.digest, bud.last) <= bud.max_chars)
            => (bud'.pc = "returned" /\ bud'.last = bud.last /\ Knobs(bud') = Knobs(bud)) ]_vars
\* a call that halved the tool calls to 50, clamped assistant text, then
\* clamped tool errors, and returned when that last digest fitted
C24_Witness ==
    /\ bud.pc = "returned"
    /\ bud.shrinks = <<"tool_calls", "tool_calls", "assistant_text", "tool_errors">>
    /\ SerializedSize(bud.digest, bud.last) <= bud.max_chars
    /\ SerializedSize(bud.digest, bud.prev) > bud.max_chars
    /\ Knobs(bud) = KnobFloors
\* the most items a selection with these bookends may return under a cap
CapOrBookends(n, max_items, head, tail) == Max2(max_items, Min2(n, head + tail))

\* C29 as stated: whatever the budgets, the digest built by a pass holds at
\* most max_user_prompts prompts and at most max_tool_calls tool calls, also
\* when the budget is smaller than head + tail.
C29_CapRespected ==
    (bud.pc \in {"loop", "returned"} /\ bud.budget_user > 0 /\ bud.budget_calls > 0) =>
        /\ Cardinality(bud.last.user_prompts) <= bud.budget_user
        /\ Cardinality(bud.last.tool_calls) <= bud.budget_calls

\* C29 as amended: the selection returns at most max(max_items, head + tail)
\* items (the bookends are kept even when they alone exceed the cap), so at
\* most max_items whenever max_items >= head + tail, which holds for every
\* budget the reducer reaches from its defaults.
C29_CapOrBookends ==
    (bud.pc \in {"loop", "returned"} /\ bud.budget_user > 0 /\ bud.budget_calls > 0) =>
        /\ Cardinality(bud.last.user_prompts)
                <= CapOrBookends(Len(bud.digest.user_prompts), bud.budget_user,
                                 PromptHead, PromptTail)
        /\ Cardinality(bud.last.tool_calls)
                <= CapOrBookends(Len(bud.digest.tool_calls), bud.budget_calls,
                                 CallHead, CallTail)
        /\ bud.budget_user >= PromptHead + PromptTail
                => Cardinality(bud.last.user_prompts) <= bud.budget_user
        /\ bud.budget_calls >= CallHead + CallTail
                => Cardinality(bud.last.tool_calls) <= bud.budget_calls

\* a pass whose prompt budget is below head + tail, on more prompts than the
\* budget: the 15 bookends are what is kept
C29_Witness ==
    /\ bud.pc \in {"loop", "returned"}
    /\ 0 < bud.budget_user /\ bud.budget_user < PromptHead + PromptTail
    /\ Len(bud.digest.user_prompts) > bud.budget_user
    /\ Cardinality(bud.last.user_prompts) = PromptHead + PromptTail
(***************************************************************************)
(* _build_changelog_digest.  A timestamp is its ISO-8601 text in parts: a  *)
(* clock reading in hours and a zone suffix, or text that is not a time.   *)
(* A user entry carries its content as a list of words, an assistant entry *)
(* its content blocks.  The digest names an entry by its index in loglines *)
(* and a block by <<entry index, block index>>.                            *)
(***************************************************************************)
MaxEvents == 3

MaxPrior == 2

MaxWalkEntries == 4

DefaultPriorPrompts == 3

AssistantTextKeep == 8

CommitsKeep == 50

Stamp(form, clock, zone) == [form |-> form, clock |-> clock, zone |-> zone]

NoDt == [ok |-> FALSE, utc |-> 0]

\* datetime.fromisoformat on the zone suffix; a trailing Z (line 704) and a
\* naive value (line 707) are both UTC
ZoneOffset(zone) == IF zone = "+01:00" THEN 1 ELSE 0

\* _parse_iso8601, lines 696-710, as the UTC instant of an aware datetime
ParseIso8601(value) ==
    IF value.form # "iso"
    THEN NoDt
    ELSE [ok |-> TRUE, utc |-> value.clock - ZoneOffset(value.zone)]

RECURSIVE StripWords(_)
\* str.strip() on a list of words, " " being a run of whitespace
StripWords(ws) ==
    IF ws = <<>> THEN <<>>
    ELSE IF Head(ws) = " " THEN StripWords(Tail(ws))
    ELSE IF ws[Len(ws)] = " " THEN StripWords(SubSeq(ws, 1, Len(ws) - 1))
    ELSE ws

\* extract_text_from_content on string content, lines 68-69
ExtractTextFromContent(content) == StripWords(content)

StopHookMarker == <<"Stop", "hook", "feedback:">>

StartsWith(text, prefix) ==
    Len(text) >= Len(prefix) /\ SubSeq(text, 1, Len(prefix)) = prefix

\* lines 1419-1423 and 1454-1455: the text makes a prompt
IsPrompt(entry) ==
    LET text == ExtractTextFromContent(entry.content)
    IN  text # <<>> /\ ~StartsWith(text, StopHookMarker)

MutBucket(dt, start_dt, end_dt) ==
    IF ~dt.ok THEN "skip"
    ELSE IF dt.utc <= start_dt.utc THEN "before"
    ELSE IF dt.utc > end_dt.utc THEN "skip"
    ELSE "within"

\* lines 1403-1411: where the slicer puts an entry
Bucket(dt, start_dt, end_dt) ==
    IF ~dt.ok THEN "skip"
    ELSE IF dt.utc < start_dt.utc THEN "before"
    ELSE IF dt.utc > end_dt.utc THEN "skip"
    ELSE "within"

RECURSIVE SliceLoop(_, _, _, _, _)
\* the loop of lines 1399-1411 from entry i on
SliceLoop(loglines, i, start_dt, end_dt, acc) ==
    IF i > Len(loglines) THEN acc
    ELSE LET b == Bucket(ParseIso8601(loglines[i].timestamp), start_dt, end_dt)
         IN  SliceLoop(loglines, i + 1, start_dt, end_dt,
                 IF b = "before" THEN [acc EXCEPT !.before = Append(@, i)]
                 ELSE IF b = "within" THEN [acc EXCEPT !.within = Append(@, i)]
                 ELSE acc)

\* lines 1414-1429: the prompts of the entries before the window
PriorUserPrompts(loglines, before) ==
    SelectSeq(before, LAMBDA i : loglines[i].type = "user" /\ IsPrompt(loglines[i]))

\* seq[-k:] for k > 0
LastItems(seq, k) == SubSeq(seq, Max2(1, Len(seq) - k + 1), Len(seq))

\* lines 1430-1431
PriorTail(prompts, prior_prompts) ==
    IF prior_prompts > 0 THEN LastItems(prompts, prior_prompts) ELSE prompts

UserEntry(timestamp, content) ==
    [type |-> "user", timestamp |-> timestamp, content |-> content, blocks |-> <<>>]

AssistantEntry(timestamp, blocks) ==
    [type |-> "assistant", timestamp |-> timestamp, content |-> <<>>, blocks |-> blocks]

\* a content block: a text block with the commit lines in it, a tool_use with
\* its tool name and command words, a tool_result with its is_error key
\* (flagged = the key is present), the code after "Process exited with code "
\* in its output ("" when the output has no such line) and its commit lines
FullBlock(type, flagged, is_error, name, cmd, exit, ncommits) ==
    [type |-> type, flagged |-> flagged, is_error |-> is_error, name |-> name,
     cmd |-> cmd, exit |-> exit, ncommits |-> ncommits]

Block(type, is_error) == FullBlock(type, TRUE, is_error, "Read", <<>>, "", 0)

Text(ncommits) == FullBlock("text", FALSE, FALSE, "", <<>>, "", ncommits)

ToolUse(name, cmd) == FullBlock("tool_use", FALSE, FALSE, name, cmd, "", 0)

ToolResult(flag, exit, ncommits) ==
    FullBlock("tool_result", flag # "none", flag = "true", "", <<>>, exit, ncommits)

NoExit == -1

NoResult == [at |-> <<0, 0>>, is_error |-> FALSE, exit_code |-> NoExit]

\* re.search(r"Process exited with code (\\d+)", ...), lines 548 and 560: the
\* group is a backslash followed by d's, so a line with digits does not match
ExitMarkerMatches(exit) == exit = "\\d"

\* _infer_is_error_from_exec_output, lines 545-554: int("\\d") raises ValueError
InferIsErrorFromExecOutput(exit) == IF ~ExitMarkerMatches(exit) THEN FALSE ELSE FALSE

\* _infer_exit_code_from_exec_output, lines 557-566
InferExitCodeFromExecOutput(exit) == IF ~ExitMarkerMatches(exit) THEN NoExit ELSE NoExit

\* _tool_name_is_command, lines 1287-1292
ToolNameIsCommand(tool_name) == tool_name \in {"bash", "shell", "terminal", "exec_command"}

\* _extract_cmd_from_tool_input, lines 1323-1330
ExtractCmdFromToolInput(cmd) == StripWords(cmd)

\* the patterns of lines 1357-1367 as the literal text each one matches
TestPatternLiterals ==
    {"\\bpytest\\b", "\\bnpm\\stest\\b", "\\byarn\\stest\\b", "\\bpnpm\\stest\\b",
     "\\bgo\\stest\\b", "\\brake\\stest\\b"}

\* _looks_like_test_command, lines 1351-1368
LooksLikeTestCommand(cmd) ==
    \/ \E k \in 1..Len(cmd) : cmd[k] \in TestPatternLiterals
    \/ \E j, k \in 1..Len(cmd) :
            j < k /\ cmd[j] \in {"\\bmvn\\b", "\\bgradle\\b"} /\ cmd[k] = "\\btest\\b"

\* _extract_commits_from_text, lines 1371-1377: the commit lines of block b
CommitsOf(i, b, ncommits) == [c \in 1..ncommits |-> <<i, b, c>>]

\* lines 1468-1519: a tool_use block
WalkToolUse(st, i, b, block) ==
    LET cmd_hint == IF ToolNameIsCommand(block.name)
                    THEN ExtractCmdFromToolInput(block.cmd) ELSE <<>>
        call == [at |-> <<i, b>>,
                 tool |-> IF block.name = "" THEN "unknown" ELSE block.name,
                 cmd |-> cmd_hint,
                 is_test |-> cmd_hint # <<>> /\ LooksLikeTestCommand(cmd_hint),
                 result |-> NoResult]
    IN  [st EXCEPT !.tool_calls = Append(@, call),
                   !.pending_tool_call = Len(st.tool_calls) + 1]

\* lines 1550-1558
TestResult(block, exit_code) ==
    IF block.flagged /\ block.is_error THEN "fail"
    ELSE IF exit_code = 0 THEN "pass"
    ELSE IF exit_code = NoExit THEN "unknown"
    ELSE "fail"

MutWalkToolResult(st, i, b, block) ==
    LET p == st.pending_tool_call
        result_obj == [at |-> <<i, b>>, is_error |-> block.is_error, exit_code |-> NoExit]
    IN  IF p # 0 THEN [st EXCEPT !.tool_calls[p].result = result_obj] ELSE st

\* lines 1521-1567: a tool_result block
WalkToolResult(st, i, b, block) ==
    LET p == st.pending_tool_call
        is_error == IF block.flagged THEN block.is_error
                    ELSE InferIsErrorFromExecOutput(block.exit)
        exit_code == IF p # 0 /\ st.tool_calls[p].cmd # <<>>
                     THEN InferExitCodeFromExecOutput(block.exit) ELSE NoExit
        result_obj == [at |-> <<i, b>>, is_error |-> is_error, exit_code |-> exit_code]
        found == [st EXCEPT !.commits = @ \o CommitsOf(i, b, block.ncommits)]
        attached ==
            IF p # 0 /\ st.tool_calls[p].result = NoResult
            THEN [found EXCEPT
                    !.tool_calls[p].result = result_obj,
                    !.tests = IF st.tool_calls[p].is_test /\ st.tool_calls[p].cmd # <<>>
                              THEN Append(@, [cmd |-> st.tool_calls[p].cmd,
                                              result |-> TestResult(block, exit_code)])
                              ELSE @]
            ELSE found
    IN  IF is_error
        THEN [attached EXCEPT !.tool_errors = Append(@, result_obj)]
        ELSE attached

\* lines 1466-1567: one tool block of entry i, at position b of its content
WalkBlock(st, i, b, block) ==
    IF block.type = "tool_use"
    THEN WalkToolUse(st, i, b, block)
    ELSE WalkToolResult(st, i, b, block)

\* _extract_tool_blocks_from_message, lines 1272-1284: the first tool block
\* at or after position b, 0 if there is none
NextTool(blocks, b) ==
    LET S == {k \in b..Len(blocks) : blocks[k].type \in {"tool_use", "tool_result"}}
    IN  IF S = {} THEN 0 ELSE CHOOSE k \in S : \A j \in S : k <= j

\* lines 1462-1464: the text blocks of entry i
TextBlocks(i, blocks) ==
    SelectSeq([b \in 1..Len(blocks) |-> <<i, b>>], LAMBDA at : blocks[at[2]].type = "text")

RECURSIVE TextCommits(_, _, _)
\* line 1463: the commit lines of the text blocks of entry i from block b on
TextCommits(i, blocks, b) ==
    IF b > Len(blocks) THEN <<>>
    ELSE (IF blocks[b].type = "text" THEN CommitsOf(i, b, blocks[b].ncommits) ELSE <<>>)
            \o TextCommits(i, blocks, b + 1)

\* lines 1387-1411
Slice ==
    /\ dig.pc = "call"
    /\ LET start_dt == ParseIso8601(dig.start)
           end_dt == ParseIso8601(dig.end)
       IN  IF ~start_dt.ok \/ ~end_dt.ok
           THEN dig' = [dig EXCEPT !.pc = "raised"]
           ELSE LET acc == SliceLoop(dig.loglines, 1, start_dt, end_dt,
                                     [before |-> <<>>, within |-> <<>>])
                IN  dig' = [dig EXCEPT !.pc = "prior", !.before = acc.before,
                                       !.within = acc.within]
    /\ UNCHANGED <<pipeVars, bf, ap, rl, pt, sv, sel, bud>>

\* lines 1413-1431
PriorPrompts ==
    /\ dig.pc = "prior"
    /\ dig' = [dig EXCEPT
            !.pc = "walk",
            !.prior_user_prompts =
                PriorTail(PriorUserPrompts(dig.loglines, dig.before), dig.prior_prompts)]
    /\ UNCHANGED <<pipeVars, bf, ap, rl, pt, sv, sel, bud>>

\* lines 1447-1464: one entry of the window, up to its first tool block
WalkEntry ==
    /\ dig.pc = "walk" /\ dig.block = 0 /\ dig.next <= Len(dig.within)
    /\ LET i == dig.within[dig.next]
           entry == dig.loglines[i]
           st == [dig EXCEPT !.next = dig.next + 1]
           nb == NextTool(entry.blocks, 1)
       IN  dig' =
            IF entry.type = "user"
            THEN IF IsPrompt(entry)
                 THEN [st EXCEPT !.delta_user_prompts = Append(@, i)]
                 ELSE st
            ELSE IF entry.type # "assistant"
            THEN st
            ELSE [dig EXCEPT
                    !.delta_assistant_text = @ \o TextBlocks(i, entry.blocks),
                    !.commits = @ \o TextCommits(i, entry.blocks, 1),
                    !.block = nb,
                    !.next = IF nb = 0 THEN @ + 1 ELSE @]
    /\ UNCHANGED <<pipeVars, bf, ap, rl, pt, sv, sel, bud>>

\* lines 1466-1567: the next tool block of the entry being walked
WalkToolBlock ==
    /\ dig.pc = "walk" /\ dig.block # 0
    /\ LET i == dig.within[dig.next]
           blocks == dig.loglines[i].blocks
           nb == NextTool(blocks, dig.block + 1)
       IN  dig' = [WalkBlock(dig, i, dig.block, blocks[dig.block]) EXCEPT
                        !.block = nb,
                        !.next = IF nb = 0 THEN @ + 1 ELSE @]
    /\ UNCHANGED <<pipeVars, bf, ap, rl, pt, sv, sel, bud>>

\* lines 1569-1593
Return ==
    /\ dig.pc = "walk" /\ dig.block = 0 /\ dig.next > Len(dig.within)
    /\ dig' = [dig EXCEPT
            !.pc = "returned",
            !.delta_assistant_text = LastItems(@, AssistantTextKeep),
            !.delta_commits = Take(dig.commits, CommitsKeep)]
    /\ UNCHANGED <<pipeVars, bf, ap, rl, pt, sv, sel, bud>>

DigNext == Slice \/ PriorPrompts \/ WalkEntry \/ WalkToolBlock \/ Return

SeqsUpTo(S, n) == UNION {[1..k -> S] : k \in 0..n}

DigCall(loglines, start, end, prior_prompts) ==
    [pc |-> "call", loglines |-> loglines, start |-> start, end |-> end,
     prior_prompts |-> prior_prompts, before |-> <<>>, within |-> <<>>,
     prior_user_prompts |-> <<>>, next |-> 1, delta_user_prompts |-> <<>>,
     delta_assistant_text |-> <<>>, tool_calls |-> <<>>, tool_errors |-> <<>>,
     pending_tool_call |-> 0, block |-> 0, tests |-> <<>>, commits |-> <<>>,
     delta_commits |-> <<>>]

Garbage == Stamp("garbage", 0, "")

Missing == Stamp("empty", 0, "")

T(clock, zone) == Stamp("iso", clock, zone)

Words == <<"fix", "bug">>

\* the window 01:00 (naive) .. 03:00+01:00, a window that ends before it
\* starts, an unparseable end
Windows == {<<T(1, ""), T(3, "+01:00")>>, <<T(3, "Z"), T(0, "Z")>>, <<T(1, ""), Garbage>>}

SliceEntries ==
    {UserEntry(t, Words) :
        t \in {T(0, "Z"), T(1, ""), T(3, "+01:00"), T(3, "Z"), Garbage, Missing}}
    \cup {UserEntry(T(1, "+01:00"), c) :
        c \in {<<" ">>, <<"Stop", "hook", "feedback:", "retry">>,
               <<"about", "Stop", "hook", "feedback:">>}}
    \cup {AssistantEntry(T(0, "Z"), <<Block("text", FALSE)>>),
          AssistantEntry(T(1, ""), <<Block("text", FALSE), Block("tool_use", FALSE),
                                     Block("tool_result", TRUE)>>)}

InitSlice ==
    /\ entries = EmptyLedgers
    /\ failures = EmptyLedgers
    /\ legacy = [root |-> {}, actors |-> {}]
    /\ inv = IdleInvs
    /\ started = 0
    /\ sel = IdleSel
    /\ bud = IdleBud
    /\ \E loglines \in SeqsUpTo(SliceEntries, MaxEvents), w \in Windows,
          prior_prompts \in 0..MaxPrior :
            dig = DigCall(loglines, w[1], w[2], prior_prompts)
    /\ bf = IdleBf
    /\ ap = IdleAp
    /\ rl = IdleRl
    /\ pt = IdlePt
    /\ sv = IdleSv

\* one call of _build_changelog_digest on transcripts that straddle the window
SpecSlice == InitSlice /\ [][DigNext]_vars

WalkShapes ==
    { <<Block("tool_use", FALSE)>>, <<Block("tool_result", FALSE)>>,
      <<Block("tool_result", TRUE)>>,
      <<Block("tool_use", FALSE), Block("tool_use", FALSE)>>,
      <<Block("tool_result", FALSE), Block("tool_result", FALSE)>>,
      <<Block("text", FALSE), Block("tool_use", FALSE)>>,
      <<Block("tool_use", FALSE), Block("tool_result", TRUE)>> }

WalkEntries ==
    {UserEntry(T(1, ""), Words)} \cup {AssistantEntry(T(1, ""), bs) : bs \in WalkShapes}

InitWalk ==
    /\ entries = EmptyLedgers
    /\ failures = EmptyLedgers
    /\ legacy = [root |-> {}, actors |-> {}]
    /\ inv = IdleInvs
    /\ started = 0
    /\ sel = IdleSel
    /\ bud = IdleBud
    /\ \E loglines \in SeqsUpTo(WalkEntries, MaxWalkEntries) :
            dig = DigCall(loglines, T(1, ""), T(3, "+01:00"), DefaultPriorPrompts)
    /\ bf = IdleBf
    /\ ap = IdleAp
    /\ rl = IdleRl
    /\ pt = IdlePt
    /\ sv = IdleSv

\* one call of _build_changelog_digest on transcripts of tool calls and results
SpecWalk == InitWalk /\ [][DigNext]_vars
(***************************************************************************)
(* Claims about the digest builder, checked under SpecSlice and SpecWalk.  *)
(***************************************************************************)
Sliced == dig.pc \in {"prior", "walk", "returned"}

StartUtc == ParseIso8601(dig.start).utc

EndUtc == ParseIso8601(dig.end).utc

EntryDt(i) == ParseIso8601(dig.loglines[i].timestamp)

Increasing(seq) == \A j, k \in 1..Len(seq) : j < k => seq[j] < seq[k]

WindowCorrect ==
    /\ \A i \in Range(dig.within) :
            EntryDt(i).ok /\ StartUtc <= EntryDt(i).utc /\ EntryDt(i).utc <= EndUtc
    /\ \A i \in Range(dig.before) : EntryDt(i).ok /\ EntryDt(i).utc < StartUtc
    /\ \A i \in 1..Len(dig.loglines) :
            (~EntryDt(i).ok \/ EntryDt(i).utc > EndUtc) =>
                i \notin Range(dig.before) \cup Range(dig.within)
    /\ Increasing(dig.before) /\ Increasing(dig.within)

\* C3 as stated: for any parseable (start, end), within holds only entries
\* with start <= ts <= end, before only entries with ts < start, an entry
\* with ts > end or without a parseable timestamp is in neither, and both
\* keep the source order.
C3_AnyWindow == Sliced => WindowCorrect

\* C3 as amended: the same for every parseable window with start <= end
\* (when end < start, an entry with end < ts < start is put in before).
C3_OrderedWindow == (Sliced /\ StartUtc <= EndUtc) => WindowCorrect

\* a sliced transcript with an entry before the window, one on its boundary
\* and one left out
C3_Witness ==
    /\ Sliced /\ StartUtc <= EndUtc
    /\ dig.before # <<>>
    /\ \E i \in Range(dig.within) : EntryDt(i).utc \in {StartUtc, EndUtc}
    /\ \E i \in 1..Len(dig.loglines) : i \notin Range(dig.before) \cup Range(dig.within)

PriorDone == dig.pc \in {"walk", "returned"}

\* the prompts before the window, in source order
PromptsBefore ==
    SelectSeq([i \in 1..Len(dig.loglines) |-> i],
              LAMBDA i : /\ EntryDt(i).ok /\ EntryDt(i).utc < StartUtc
                         /\ dig.loglines[i].type = "user"
                         /\ IsPrompt(dig.loglines[i]))

\* C9: for every K >= 0, context.prior_user_prompts holds only prompts of
\* entries with ts < start (non-empty text that does not start with the stop
\* hook marker), at most K of them, and they are the K most recent ones.
C9_PriorContextBound ==
    PriorDone =>
        /\ Len(dig.prior_user_prompts) <= dig.prior_prompts
        /\ dig.prior_user_prompts =
                SubSeq(PromptsBefore,
                       Max2(1, Len(PromptsBefore) - dig.prior_prompts + 1),
                       Len(PromptsBefore))

\* <<i, b>> comes before <<j, c>> in the walk
Earlier(p, q) == p[1] < q[1] \/ (p[1] = q[1] /\ p[2] < q[2])

\* the tool_result blocks of the assistant entries in the window
ResultBlocks ==
    {<<i, b>> \in Range(dig.within) \X (1..3) :
        /\ dig.loglines[i].type = "assistant"
        /\ b <= Len(dig.loglines[i].blocks)
        /\ dig.loglines[i].blocks[b].type = "tool_result"}

\* the calls opened before block r that had no result when r was walked
OpenAt(r) ==
    {k \in 1..Len(dig.tool_calls) :
        /\ Earlier(dig.tool_calls[k].at, r)
        /\ \/ dig.tool_calls[k].result = NoResult
           \/ ~Earlier(dig.tool_calls[k].result.at, r)}

MaxOf(S) == CHOOSE k \in S : \A j \in S : j <= k

\* C10: every tool_result block is attached to the most recently opened call
\* that has no result yet (after tool_use A, tool_use B, tool_result r1,
\* tool_result r2: r1 to B and r2 to A).
C10_ResultToLatestOpenCall ==
    dig.pc = "returned" =>
        \A r \in ResultBlocks :
            OpenAt(r) # {} => dig.tool_calls[MaxOf(OpenAt(r))].result.at = r

CallsKeepResults ==
    /\ Len(dig'.tool_calls) >= Len(dig.tool_calls)
    /\ \A k \in 1..Len(dig.tool_calls) :
            /\ dig'.tool_calls[k].at = dig.tool_calls[k].at
            /\ dig.tool_calls[k].result # NoResult =>
                    dig'.tool_calls[k].result = dig.tool_calls[k].result
    /\ \A k \in (Len(dig.tool_calls) + 1)..Len(dig'.tool_calls) :
            dig'.tool_calls[k].result = NoResult

\* C11: a tool call is created with no result, and once a call holds a result
\* no later step of the walk changes it (a call receives a result at most once).
C11_ResultAttachedOnce == [][CallsKeepResults]_vars

\* a call that held a result when a later tool_result block found it pending
C11_Witness ==
    /\ dig.pc = "returned"
    /\ \E k \in 1..Len(dig.tool_calls), r \in ResultBlocks :
            /\ dig.tool_calls[k].result # NoResult
            /\ Earlier(dig.tool_calls[k].result.at, r)
            /\ k = MaxOf({j \in 1..Len(dig.tool_calls) : Earlier(dig.tool_calls[j].at, r)})

MaxTestEntries == 3

TestEntries ==
    {AssistantEntry(T(1, ""), <<ToolUse(name, cmd)>>) :
        name \in {"bash"},
        cmd \in {<<"pytest", "-q">>, <<"ls">>, <<"grep", "\\bpytest\\b">>}}
    \cup {AssistantEntry(T(1, ""), <<ToolUse("Read", <<>>)>>)}
    \cup {AssistantEntry(T(1, ""), <<ToolResult(flag, exit, 0)>>) :
        flag \in {"true", "false", "none"}, exit \in {"", "0", "1"}}

InitTests ==
    /\ entries = EmptyLedgers
    /\ failures = EmptyLedgers
    /\ legacy = [root |-> {}, actors |-> {}]
    /\ inv = IdleInvs
    /\ started = 0
    /\ sel = IdleSel
    /\ bud = IdleBud
    /\ \E loglines \in SeqsUpTo(TestEntries, MaxTestEntries) :
            dig = DigCall(loglines, T(1, ""), T(3, "+01:00"), DefaultPriorPrompts)
    /\ bf = IdleBf
    /\ ap = IdleAp
    /\ rl = IdleRl
    /\ pt = IdlePt
    /\ sv = IdleSv

\* one call of _build_changelog_digest on transcripts of shell commands and
\* their outputs
SpecTests == InitTests /\ [][DigNext]_vars

\* a test-runner invocation such as "pytest -q"
TestRunnerInvocation(cmd) == cmd # <<>> /\ cmd[1] \in {"pytest"}

BlockAt(at) == dig.loglines[at[1]].blocks[at[2]]

\* the outcome the output of a test run shows
ExpectedOutcome(block) ==
    IF block.flagged /\ block.is_error THEN "fail"
    ELSE IF block.exit = "0" THEN "pass"
    ELSE IF block.exit = "" THEN "unknown"
    ELSE "fail"

ExpectedTests ==
    LET ks == SelectSeq([k \in 1..Len(dig.tool_calls) |-> k],
                        LAMBDA k : /\ TestRunnerInvocation(dig.tool_calls[k].cmd)
                                   /\ dig.tool_calls[k].result # NoResult)
    IN  [n \in 1..Len(ks) |->
            [cmd |-> dig.tool_calls[ks[n]].cmd,
             result |-> ExpectedOutcome(BlockAt(dig.tool_calls[ks[n]].result.at))]]

\* C12: a shell tool_use whose command is a test-runner invocation is flagged
\* is_test, and each result attached to one appends exactly one {cmd, result}
\* to tests: fail on an explicit error flag, else pass on exit code 0, fail on
\* another exit code, unknown without an exit marker.
C12_TestOutcomes ==
    dig.pc = "returned" =>
        /\ \A k \in 1..Len(dig.tool_calls) :
                TestRunnerInvocation(dig.tool_calls[k].cmd) => dig.tool_calls[k].is_test
        /\ dig.tests = ExpectedTests

MaxCapEntries == 3

CapEntries ==
    {AssistantEntry(T(1, ""), bs) :
        bs \in { <<Text(30)>>, <<Text(0), Text(0), Text(0)>>,
                 <<ToolResult("false", "", 30)>>,
                 <<Text(21), ToolUse("Read", <<>>)>>,
                 <<ToolUse("Read", <<>>), ToolResult("none", "", 0)>> }}

InitCaps ==
    /\ entries = EmptyLedgers
    /\ failures = EmptyLedgers
    /\ legacy = [root |-> {}, actors |-> {}]
    /\ inv = IdleInvs
    /\ started = 0
    /\ sel = IdleSel
    /\ bud = IdleBud
    /\ \E loglines \in SeqsUpTo(CapEntries, MaxCapEntries) :
            dig = DigCall(loglines, T(1, ""), T(3, "+01:00"), DefaultPriorPrompts)
    /\ bf = IdleBf
    /\ ap = IdleAp
    /\ rl = IdleRl
    /\ pt = IdlePt
    /\ sv = IdleSv

\* one call of _build_changelog_digest on transcripts with many commits and
\* many text snippets
SpecCaps == InitCaps /\ [][DigNext]_vars

RECURSIVE SnippetsFrom(_)
\* the text blocks of the assistant entries from position n of the window on
SnippetsFrom(n) ==
    IF n > Len(dig.within) THEN <<>>
    ELSE LET i == dig.within[n]
         IN  (IF dig.loglines[i].type = "assistant"
              THEN TextBlocks(i, dig.loglines[i].blocks) ELSE <<>>)
                \o SnippetsFrom(n + 1)

\* C13: delta.commits holds at most 50 commits, the 50 most recent ones in
\* detection order when more were detected; delta.assistant_text holds at
\* most the last 8 text snippets of the window.
C13_OutputCaps ==
    dig.pc = "returned" =>
        /\ Len(dig.delta_commits) <= CommitsKeep
        /\ dig.delta_commits =
                SubSeq(dig.commits, Max2(1, Len(dig.commits) - CommitsKeep + 1),
                       Len(dig.commits))
        /\ Len(dig.delta_assistant_text) <= AssistantTextKeep
        /\ dig.delta_assistant_text =
                SubSeq(SnippetsFrom(1), Max2(1, Len(SnippetsFrom(1)) - AssistantTextKeep + 1),
                       Len(SnippetsFrom(1)))

(***************************************************************************)
(* The command `changelog backfill` (changelog_backfill_cmd): three nested *)
(* loops over base directories, their session directories in name order,   *)
(* and the runs of a session directory; each usable run is passed to the   *)
(* pipeline with halt_on_429=True.                                         *)
(***************************************************************************)
MaxDirRuns == 2

MaxBatchRuns == 3

\* --limit not given
NoLimit == -1

\* a run after the fallbacks of lines 4757-4805: its start and its copied
\* JSONL, "" for what no fallback could find
BfRunOf(start, copied_jsonl) ==
    [start |-> start, end |-> "t2", copied_jsonl |-> copied_jsonl]

RunKinds == {BfRunOf("t1", "a.jsonl"), BfRunOf("", "a.jsonl")}

SessionDir(name, runs) == [name |-> name, runs |-> runs]

\* base.exists(), tool_guess of lines 4707-4711, the sorted session_dirs
Base(exists, tool_guess, dirs) ==
    [exists |-> exists, tool_guess |-> tool_guess, dirs |-> dirs]

RunLists == SeqsUpTo(RunKinds, MaxDirRuns)

\* the default bases <root>/.codex/sessions and <root>/.claude/sessions
Batches ==
    { <<Base(TRUE, "codex", <<SessionDir("/r/.codex/sessions/s1", t[1]),
                              SessionDir("/r/.codex/sessions/s2", t[2])>>),
        Base(TRUE, "claude", <<SessionDir("/r/.claude/sessions/s1", t[3])>>)>> :
        t \in {u \in RunLists \X RunLists \X RunLists :
                    Len(u[1]) + Len(u[2]) + Len(u[3]) <= MaxBatchRuns} }
    \cup
    { <<Base(FALSE, "codex", <<>>),
        Base(TRUE, "claude", <<SessionDir("/r/.claude/sessions/s1", runs)>>)>> :
        runs \in RunLists }

Limits == {NoLimit, 1}

\* lines 4693-4700: the state at the head of the outer loop
BackfillCall(bases, actor, dry_run, limit) ==
    [pc |-> "base", bases |-> bases, actor |-> actor, dry_run |-> dry_run,
     limit |-> limit, b |-> 1, s |-> 0, r |-> 0, processed |-> 0,
     halted |-> FALSE, passed |-> <<>>, reported |-> 0, message |-> ""]

\* limit is not None and processed >= limit
LimitReached(st) == st.limit # NoLimit /\ st.processed >= st.limit

\* lines 4701-4714: the head of `for base in bases`
BaseStep(st) ==
    IF st.b > Len(st.bases) \/ LimitReached(st) THEN [st EXCEPT !.pc = "report"]
    ELSE IF ~st.bases[st.b].exists THEN [st EXCEPT !.b = @ + 1]
    ELSE [st EXCEPT !.pc = "dir", !.s = 1]

\* lines 4716-4718: the head of `for session_dir in session_dirs`
DirStep(st) ==
    IF st.s > Len(st.bases[st.b].dirs) \/ LimitReached(st)
    THEN [st EXCEPT !.pc = "after_dirs"]
    ELSE [st EXCEPT !.pc = "run", !.r = 1]

\* lines 4850-4851: `if halted: break` after the loop over the runs
AfterRuns(st) ==
    IF st.halted THEN [st EXCEPT !.pc = "after_dirs"]
    ELSE [st EXCEPT !.pc = "dir", !.s = @ + 1]

\* an outer loop that goes on to the next base directory after a halt
MutAfterDirs(st) == [st EXCEPT !.pc = "base", !.b = @ + 1]

\* lines 4853-4854: `if halted: break` after the loop over the session dirs
AfterDirs(st) ==
    IF st.halted THEN [st EXCEPT !.pc = "report"]
    ELSE [st EXCEPT !.pc = "base", !.b = @ + 1]

\* line 4807: not start or not end or no copied JSONL
Usable(run) == run.start # "" /\ run.end # "" /\ run.copied_jsonl # ""

\* lines 4819-4836: the arguments of the pipeline call
BackfillArgs(st) ==
    LET base == st.bases[st.b]
        run == base.dirs[st.s].runs[st.r]
    IN  [tool |-> Lower(IF base.tool_guess = "" THEN "unknown" ELSE base.tool_guess),
         start |-> run.start, end |-> run.end,
         session_dir |-> base.dirs[st.s].name,
         source_jsonl |-> run.copied_jsonl, actor |-> st.actor,
         halt_on_429 |-> TRUE]

\* lines 4837-4848: what follows the return of the pipeline
AfterCall(st, run_id, status) ==
    LET counted == [st EXCEPT !.processed = @ + 1,
                              !.passed = Append(@, [pos |-> <<st.b, st.s, st.r>>,
                                                    run_id |-> run_id,
                                                    status |-> status])]
    IN  IF status = "rate_limited"
        THEN [counted EXCEPT !.halted = TRUE, !.pc = "after_runs"]
        ELSE [counted EXCEPT !.pc = "run", !.r = @ + 1]

BfBase ==
    /\ bf.pc = "base"
    /\ bf' = BaseStep(bf)
    /\ UNCHANGED <<pipeVars, sel, bud, dig, ap, rl, pt, sv>>

BfDir ==
    /\ bf.pc = "dir"
    /\ bf' = DirStep(bf)
    /\ UNCHANGED <<pipeVars, sel, bud, dig, ap, rl, pt, sv>>

\* lines 4754-4836: the head of `for run in runs`, the skip, the dry run and
\* the call of the pipeline
BfRun ==
    /\ bf.pc = "run"
    /\ UNCHANGED <<sel, bud, dig, ap, rl, pt, sv>>
    /\ LET runs == bf.bases[bf.b].dirs[bf.s].runs
       IN  IF bf.r > Len(runs) \/ LimitReached(bf)
           THEN bf' = [bf EXCEPT !.pc = "after_runs"] /\ UNCHANGED pipeVars
           ELSE IF ~Usable(runs[bf.r])
           THEN bf' = [bf EXCEPT !.r = @ + 1] /\ UNCHANGED pipeVars
           ELSE IF bf.dry_run
           THEN bf' = [bf EXCEPT !.processed = @ + 1, !.r = @ + 1] /\ UNCHANGED pipeVars
           ELSE InvokeOn(1, BackfillArgs(bf)) /\ bf' = [bf EXCEPT !.pc = "call"]

BfReturn ==
    /\ bf.pc = "call"
    /\ inv[1].pc = "done"
    /\ bf' = AfterCall(bf, inv[1].run_id, inv[1].status)
    /\ UNCHANGED <<pipeVars, sel, bud, dig, ap, rl, pt, sv>>

BfAfterRuns ==
    /\ bf.pc = "after_runs"
    /\ bf' = AfterRuns(bf)
    /\ UNCHANGED <<pipeVars, sel, bud, dig, ap, rl, pt, sv>>

BfAfterDirs ==
    /\ bf.pc = "after_dirs"
    /\ bf' = AfterDirs(bf)
    /\ UNCHANGED <<pipeVars, sel, bud, dig, ap, rl, pt, sv>>

\* lines 4856-4859
BfReport ==
    /\ bf.pc = "report"
    /\ bf' = [bf EXCEPT !.pc = "done", !.reported = bf.processed,
                        !.message = IF bf.halted THEN "halted" ELSE "complete"]
    /\ UNCHANGED <<pipeVars, sel, bud, dig, ap, rl, pt, sv>>

\* what the evaluator answers during a backfill
BackfillOutputs == { Out("Did X", TRUE, <<"b">>, NONE) }

BackfillErrors ==
    UsageLimitErrors
        \cup {Err(<<"context", "window", "ran", "out", "of", "room">>, 30, 0)}

BfRunEval == RunEvalOn(1, BackfillOutputs, BackfillErrors) /\ UNCHANGED otherVars

BfRetryEval == RetryEvalOn(1, BackfillOutputs, BackfillErrors) /\ UNCHANGED otherVars

BackfillNext ==
    \/ BfBase
    \/ BfDir
    \/ BfRun
    \/ BuildDigest(1)
    \/ BfRunEval
    \/ BfRetryEval
    \/ ValidateAndAppend(1)
    \/ BfReturn
    \/ BfAfterRuns
    \/ BfAfterDirs
    \/ BfReport

BackfillLegacies ==
    { [root |-> {}, actors |-> {}],
      [root |-> {ComputeRunId("codex", "t1", "t2", "/r/.codex/sessions/s1", "a.jsonl")},
       actors |-> {}] }

BackfillCalls ==
    { BackfillCall(bases, "Bob", dry_run, limit) :
        bases \in Batches, dry_run \in BOOLEAN, limit \in Limits }

InitBackfill ==
    /\ entries = EmptyLedgers
    /\ failures = EmptyLedgers
    /\ legacy \in BackfillLegacies
    /\ inv = IdleInvs
    /\ started = 0
    /\ sel = IdleSel
    /\ bud = IdleBud
    /\ dig = IdleDig
    /\ bf \in BackfillCalls
    /\ ap = IdleAp
    /\ rl = IdleRl
    /\ pt = IdlePt
    /\ sv = IdleSv

\* one run of the command on a project
SpecBackfill == InitBackfill /\ [][BackfillNext]_vars

(***************************************************************************)
(* Claims about the backfill batch.                                        *)
(***************************************************************************)
\* the runs the loops can pass to the pipeline: usable runs of existing bases
UsablePositions(bases) ==
    UNION { UNION { { <<b, s, r>> :
                        r \in {q \in 1..Len(bases[b].dirs[s].runs) :
                                    Usable(bases[b].dirs[s].runs[q])} } :
                    s \in 1..Len(bases[b].dirs) } :
            b \in {c \in 1..Len(bases) : bases[c].exists} }

\* the order of the loops
LoopBefore(x, y) ==
    \/ x[1] < y[1]
    \/ x[1] = y[1] /\ x[2] < y[2]
    \/ x[1] = y[1] /\ x[2] = y[2] /\ x[3] < y[3]

LoopRank(P, x) == Cardinality({y \in P : LoopBefore(y, x)}) + 1

BackfillRunning == bf.pc # "idle"

\* C16: once a run returned rate_limited no later run is passed to the
\* pipeline, and the command reports the number processed so far; the runs
\* that returned failed, exists or appended are followed by the next usable
\* run in loop order, so a batch that ends without a halt has passed every
\* usable run (or as many as --limit allows).
C16_BatchHaltsOnlyOnRateLimit ==
    BackfillRunning =>
        LET P == UsablePositions(bf.bases)
            n == Len(bf.passed)
        IN  /\ \A k \in 1..(n - 1) : bf.passed[k].status # "rate_limited"
            /\ \A k \in 1..n :
                    bf.passed[k].pos \in P /\ LoopRank(P, bf.passed[k].pos) = k
            /\ bf.halted <=> (n > 0 /\ bf.passed[n].status = "rate_limited")
            /\ bf.pc = "done" =>
                /\ bf.reported = bf.processed
                /\ bf.message = (IF bf.halted THEN "halted" ELSE "complete")
                /\ ~bf.dry_run => bf.reported = n
                /\ ~bf.halted =>
                        bf.processed = (IF bf.limit = NoLimit THEN Cardinality(P)
                                        ELSE Min2(bf.limit, Cardinality(P)))

\* a failed run was followed by the next run, which was rate limited: the
\* batch ended there, with a usable run in a later base directory not passed
C16_Witness ==
    /\ bf.pc = "done" /\ bf.halted /\ bf.reported = 2
    /\ bf.passed[1].status = "failed"
    /\ bf.passed[2].pos[1] = 1
    /\ \E x \in UsablePositions(bf.bases) : x[1] = 2

(***************************************************************************)
(* Claims about the classification of failures as usage-limit errors.      *)
(***************************************************************************)
\* the text of tests/test_changelog_usage_limit_detection.py, line 5
RateLimitsFieldText ==
    <<"{\"rate_limits\":", "{\"primary\":", "{\"used_percent\":", "12.0}}}">>

\* C14: an error text in which rate_limits occurs only as a JSON field name is
\* not classified as rate limited: an invocation that failed with that text
\* ends with status failed, and the batch that made it is not halted by it.
C14_FieldNameNotRateLimited ==
    \A p \in Procs :
        (inv[p].pc = "done" /\ inv[p].error.text = RateLimitsFieldText)
            => /\ inv[p].status = "failed"
               /\ bf.pc = "call" =>
                    ~AfterCall(bf, inv[p].run_id, inv[p].status).halted

\* the words in which 429 stands as a token of its own
Standalone429 == {"429", "error=429"}

\* the three positive cases of the classification
UsageLimitCase(text) ==
    \/ \E k \in 1..Len(text) : text[k] = "usage_limit_reached"
    \/ HasPhrase(text, <<"HTTP", "429", "Too", "Many", "Requests">>)
    \/ \E k \in 1..Len(text) : text[k] \in Standalone429

\* C15: an error text that contains usage_limit_reached, or HTTP 429 Too Many
\* Requests, or 429 as a standalone token is classified as rate limited: with
\* halt_on_429 an invocation that failed with such a text ends rate_limited.
C15_UsageLimitCasesDetected ==
    \A p \in Procs :
        (inv[p].pc = "done" /\ inv[p].error # NoError /\ inv[p].halt_on_429
            /\ UsageLimitCase(inv[p].error.text))
            => inv[p].status = "rate_limited"

(***************************************************************************)
(* The changelog writer: the pipeline on evaluator outputs of every shape  *)
(* the validation and the entry assembly distinguish.                      *)
(***************************************************************************)
\* maxLength of notes in _CHANGELOG_ENTRY_SCHEMA
NotesMax == 800

\* a notes text of NotesMax + 1 characters, none of them white space
LongNotes == "<801 characters>"

\* len() on the modelled notes
Chars(s) ==
    CASE s = LongNotes -> NotesMax + 1
      [] s = " n " -> 3
      [] s = "n" -> 1
      [] s = " " -> 1
      [] OTHER -> 0

Bullets(n) == [k \in 1..n |-> "b"]

WriterOutputs ==
    { Out("Did X", TRUE, <<" b ", " ">>, " n "),
      Out("Did X", TRUE, Bullets(MaxBullets + 1), NONE),
      Out("Did X", TRUE, <<"b">>, LongNotes),
      Out("Did X", TRUE, <<" ">>, " "),
      Out(" ", TRUE, <<"b">>, NONE),
      Out("Did X", FALSE, <<>>, NONE) }

WriterErrors ==
    { Err(<<"boom">>, 4, 0),
      Err(<<"context", "window", "ran", "out", "of", "room">>, 30, 0) }

WriterArgs == {a \in RunArgs : a.tool = "codex" /\ ~a.halt_on_429}

WrRunEval(p) == RunEvalOn(p, WriterOutputs, WriterErrors) /\ UNCHANGED otherVars

WrRetryEval(p) == RetryEvalOn(p, WriterOutputs, WriterErrors) /\ UNCHANGED otherVars

WriterNext ==
    \E p \in Procs :
        \/ \E a \in WriterArgs : Invoke(p, a)
        \/ BuildDigest(p)
        \/ WrRunEval(p)
        \/ WrRetryEval(p)
        \/ ValidateAndAppend(p)

SpecWriter == Init /\ [][WriterNext]_vars

\* the lines of every entries ledger
Lines == UNION {Range(entries[s]) : s \in Slugs}

\* C17: the created_at of every appended entry is the start timestamp of its
\* run.
C17_CreatedAtIsSessionStart ==
    \A line \in Lines : line.created_at = line.start

\* C18: every line of an entries ledger has a non-empty summary and between 1
\* and 12 non-empty bullets, and an evaluator output whose summary is missing
\* or whose bullets hold no non-empty string ends the invocation in a failure
\* record without an entry.
C18_ValidatedBeforeAppend ==
    /\ \A line \in Lines :
        /\ line.summary \notin {NONE, "", " "}
        /\ Len(line.bullets) \in 1..MaxBullets
        /\ \A k \in 1..Len(line.bullets) : line.bullets[k] \notin {"", " "}
    /\ \A p \in Procs :
        LET i == inv[p]
        IN  (/\ i.pc = "done"
             /\ i.out # NoOut
             /\ \/ i.out.summary = NONE
                \/ Strip(i.out.summary) = ""
                \/ ~i.out.bullets.list
                \/ StripNonEmpty(i.out.bullets.items) = <<>>)
            => /\ i.status \in FailedStatus
               /\ entries[i.slug] = i.entries0
               /\ Len(failures[i.slug]) = Len(i.failures0) + 1

\* C19: the notes of every appended entry are at most 800 characters long.
C19_NotesBounded ==
    \A line \in Lines : line.notes # NONE => Chars(line.notes) <= NotesMax

(***************************************************************************)
(* Claims about an invocation on a run that was recorded before.           *)
(***************************************************************************)
\* the run id of invocation i was in one of the three ledgers when it began
RecordedBefore(i) ==
    \/ \E k \in 1..Len(i.entries0) : i.entries0[k].run_id = i.run_id
    \/ i.run_id \in legacy.root
    \/ <<i.slug, i.run_id>> \in legacy.actors

\* C20: an invocation whose run id is already in one of the consulted ledgers
\* returns "exists" at once: no digest is built, the evaluator is not called,
\* and the entries ledger and the failures log stay as they were.
C20_DuplicateRunIsNoOp ==
    \A p \in Procs :
        LET i == inv[p]
        IN  (i.pc # "idle" /\ RecordedBefore(i))
            => /\ i.pc = "done"
               /\ i.status = "exists"
               /\ i.evaluator = ""
               /\ i.calls = <<>>
               /\ i.out = NoOut
               /\ i.error = NoError
               /\ entries[i.slug] = i.entries0
               /\ failures[i.slug] = i.failures0

\* a run found in the legacy root ledger, with a failure already in the log
C20_Witness ==
    \E p \in Procs :
        /\ inv[p].pc = "done" /\ inv[p].status = "exists"
        /\ inv[p].run_id \in legacy.root
        /\ inv[p].entries0 = <<>>
        /\ Len(failures[inv[p].slug]) = 1

\* C30: an earlier failure of a run does not block a later invocation of it.
\* When the failures log already holds a record of the run id and no entries
\* ledger does, the invocation does not return "exists": it goes on to the
\* digest and the evaluator; if it ends "appended" the evaluator was called
\* and the ledger holds exactly one entry of the run, one line more than
\* before; if it fails again the log holds one more record of the run.
C30_FailureDoesNotBlockRetry ==
    \A p \in Procs :
        LET i == inv[p]
        IN  (i.pc # "idle" /\ Count(i.failures0, i.run_id) > 0 /\ ~RecordedBefore(i))
            => /\ i.status # "exists"
               /\ i.run_id \notin i.existing
               /\ i.pc = "done" => i.status \in {"appended"} \cup FailedStatus
               /\ (i.pc = "done" /\ i.status = "appended")
                    => /\ i.calls # <<>>
                       /\ Count(entries[i.slug], i.run_id) = 1
                       /\ Len(entries[i.slug]) = Len(i.entries0) + 1
                       /\ failures[i.slug] = i.failures0
               /\ (i.pc = "done" /\ i.status \in FailedStatus)
                    => /\ Count(failures[i.slug], i.run_id)
                            = Count(i.failures0, i.run_id) + 1
                       /\ entries[i.slug] = i.entries0

\* a second invocation of a run that failed before, which appends its entry
C30_Witness ==
    \E p \in Procs :
        /\ inv[p].pc = "done" /\ inv[p].status = "appended"
        /\ Count(inv[p].failures0, inv[p].run_id) = 1
        /\ Count(entries[inv[p].slug], inv[p].run_id) = 1

(***************************************************************************)
(* Two processes that run the pipeline at the same time on one project:    *)
(* the steps of the two invocations interleave.                            *)
(***************************************************************************)
RaceProcs == {1, 2}

RaceArgs == {a \in RunArgs : a.tool = "codex" /\ a.start = "t1" /\ ~a.halt_on_429}

RaceOutputs == { Out("Did X", TRUE, <<"b">>, NONE) }

RaceErrors ==
    { Err(<<"boom">>, 4, 0),
      Err(<<"context", "window", "ran", "out", "of", "room">>, 30, 0) }

RaceRunEval(p) == RunEvalOn(p, RaceOutputs, RaceErrors) /\ UNCHANGED otherVars

RaceRetryEval(p) == RetryEvalOn(p, RaceOutputs, RaceErrors) /\ UNCHANGED otherVars

RaceNext ==
    \E p \in RaceProcs :
        \/ \E a \in RaceArgs : Invoke(p, a)
        \/ BuildDigest(p)
        \/ RaceRunEval(p)
        \/ RaceRetryEval(p)
        \/ ValidateAndAppend(p)

RaceInvs == [p \in RaceProcs |-> IdleInv]

InitRace ==
    /\ entries = EmptyLedgers
    /\ failures = EmptyLedgers
    /\ legacy \in Legacies
    /\ inv = RaceInvs
    /\ started = 0
    /\ sel = IdleSel
    /\ bud = IdleBud
    /\ dig = IdleDig
    /\ bf = IdleBf
    /\ ap = IdleAp
    /\ rl = IdleRl
    /\ pt = IdlePt
    /\ sv = IdleSv

SpecRace == InitRace /\ [][RaceNext]_vars

\* process p appends its entry in this step
Appends(p) == inv[p].pc = "validate" /\ inv'[p].status = "appended"

\* C21: the existence check and the append are two separate steps.  Every
\* append is made by an invocation whose check, made when it began, found no
\* line for its run id, and it is made without looking at the ledger again:
\* the entry is added whatever the ledger holds by then, so two invocations
\* that both passed the check both append.
C21_CheckThenAppendNotAtomic ==
    [][\A p \in RaceProcs :
        Appends(p) =>
            /\ Count(inv[p].entries0, inv[p].run_id) = 0
            /\ inv[p].run_id \notin legacy.root
            /\ <<inv[p].slug, inv[p].run_id>> \notin legacy.actors
            /\ entries'[inv[p].slug] = Append(entries[inv[p].slug], Entry(inv[p]))]_vars

\* both processes passed the check before either appended: the ledger holds
\* two lines with the same run id
C21_Witness ==
    \E s \in Slugs :
        /\ Len(entries[s]) = 2
        /\ entries[s][1].run_id = entries[s][2].run_id
        /\ \A p \in RaceProcs :
            /\ inv[p].status = "appended"
            /\ inv[p].entries0 = <<>>

(***************************************************************************)
(* _append_jsonl, lines 896-900, on one ledger file that several processes *)
(* append to.  The file is opened in append mode with Python's default     *)
(* buffering: the two write calls fill the buffer, which reaches the file  *)
(* in one write when the file is closed, unless the text is larger than    *)
(* the buffer: then the text is written through at once and the newline    *)
(* follows in a write of its own at the close.  Each write to the file is  *)
(* placed at its end as a whole.                                           *)
(***************************************************************************)
MaxAppends == 3

AppendProcs == {1, 2}

NL == "\n"

\* json.dumps(obj): the text of a record, and whether it exceeds the buffer
Record(id, large) == [id |-> id, large |-> large]

Records == {Record(id, large) : id \in {"r1", "r2"}, large \in BOOLEAN}

NoRecord == Record("", FALSE)

IdleWriter == [pc |-> "idle", obj |-> NoRecord, pending |-> <<>>]

AppendFile(file, writers, calls) == [pc |-> "run", file |-> file, w |-> writers, calls |-> calls]

\* line 898: open(path, "a")
ApOpen(p) ==
    /\ ap.w[p].pc = "idle"
    /\ ap.calls < MaxAppends
    /\ \E obj \in Records :
        ap' = [ap EXCEPT !.w[p] = [pc |-> "open", obj |-> obj, pending |-> <<>>],
                         !.calls = @ + 1]
    /\ UNCHANGED <<pipeVars, sel, bud, dig, bf, rl, pt, sv>>

\* line 899: f.write(json.dumps(obj))
ApWriteText(p) ==
    /\ ap.w[p].pc = "open"
    /\ ap' = IF ap.w[p].obj.large
             THEN [ap EXCEPT !.file = Append(@, ap.w[p].obj.id), !.w[p].pc = "text"]
             ELSE [ap EXCEPT !.w[p].pending = <<ap.w[p].obj.id>>, !.w[p].pc = "text"]
    /\ UNCHANGED <<pipeVars, sel, bud, dig, bf, rl, pt, sv>>

\* line 900: f.write("\n")
ApWriteNewline(p) ==
    /\ ap.w[p].pc = "text"
    /\ ap' = [ap EXCEPT !.w[p].pending = Append(@, NL), !.w[p].pc = "newline"]
    /\ UNCHANGED <<pipeVars, sel, bud, dig, bf, rl, pt, sv>>

\* the end of the with block: the buffer is flushed and the file closed
ApClose(p) ==
    /\ ap.w[p].pc = "newline"
    /\ ap' = [ap EXCEPT !.file = @ \o ap.w[p].pending, !.w[p] = IdleWriter]
    /\ UNCHANGED <<pipeVars, sel, bud, dig, bf, rl, pt, sv>>

AppendNext ==
    \E p \in AppendProcs :
        \/ ApOpen(p)
        \/ ApWriteText(p)
        \/ ApWriteNewline(p)
        \/ ApClose(p)

IdleWriters == [p \in AppendProcs |-> IdleWriter]

EmptyFile == AppendFile(<<>>, IdleWriters, 0)

InitAppend ==
    /\ entries = EmptyLedgers
    /\ failures = EmptyLedgers
    /\ legacy = [root |-> {}, actors |-> {}]
    /\ inv = IdleInvs
    /\ started = 0
    /\ sel = IdleSel
    /\ bud = IdleBud
    /\ dig = IdleDig
    /\ bf = IdleBf
    /\ ap = EmptyFile
    /\ rl = IdleRl
    /\ pt = IdlePt
    /\ sv = IdleSv

SpecAppend == InitAppend /\ [][AppendNext]_vars

\* no line of the file holds two records
OneRecordPerLine(file) ==
    \A k \in 1..(Len(file) - 1) : file[k] # NL => file[k + 1] = NL

\* every record of the file is followed by its newline
RecordsTerminated(file) ==
    /\ \A k \in 1..Len(file) : file[k] # NL => (k < Len(file) /\ file[k + 1] = NL)
    /\ \A k \in 1..Len(file) : file[k] = NL => (k > 1 /\ file[k - 1] # NL)

\* C22: under any interleaving of concurrent _append_jsonl calls no line of
\* the ledger file holds two records, and once the calls have returned every
\* line is one record followed by its newline.
C22_AppendAllOrNothingPerLine ==
    ap.pc = "run" =>
        /\ OneRecordPerLine(ap.file)
        /\ (\A p \in AppendProcs : ap.w[p].pc = "idle") => RecordsTerminated(ap.file)

(***************************************************************************)
(* The evaluator subprocess that never answers.  subprocess.run blocks     *)
(* until the child exits; only a timeout argument makes it raise           *)
(* TimeoutExpired, which the pipeline's except clause then records.        *)
(***************************************************************************)
\* line 2015: timeout_seconds of _run_claude_changelog_evaluator, passed to
\* subprocess.run at line 2052; the subprocess.run of
\* _run_codex_changelog_evaluator, lines 1925-1931, passes no timeout
HasTimeout(evaluator) == evaluator = "claude"

\* str(subprocess.TimeoutExpired)
TimeoutExpired == Err(<<"Command", "timed", "out", "after", "900", "seconds">>, 40, 0)

\* the child process of an evaluator call does not answer: the call blocks
EvalHang(p) ==
    /\ inv[p].pc \in {"eval", "retry"}
    /\ inv' = [inv EXCEPT ![p].pc = "blocked"]
    /\ UNCHANGED <<entries, failures, legacy, started>>
    /\ UNCHANGED otherVars

\* the timeout of the blocked call expires
EvalTimeout(p) ==
    /\ inv[p].pc = "blocked"
    /\ HasTimeout(inv[p].evaluator)
    /\ UNCHANGED otherVars
    /\ LET d == IF inv[p].calls = <<>> THEN "full" ELSE RetryDigest
       IN  IF inv[p].calls = <<>> /\ LooksLikeContextWindowError(TimeoutExpired.text)
           THEN /\ inv' = [inv EXCEPT ![p] =
                        [WithCall(inv[p], d, TimeoutExpired) EXCEPT !.pc = "retry"]]
                /\ UNCHANGED <<entries, failures, legacy, started>>
           ELSE Fail(p, WithCall(inv[p], d, TimeoutExpired), TimeoutExpired,
                     inv[p].halt_on_429)

TimeoutArgs == {a \in RunArgs : a.tool = "codex" /\ a.start = "t1" /\ a.actor = "Bob"}

TimeoutOutputs == { Out("Did X", TRUE, <<"b">>, NONE) }

TimeoutErrors ==
    { Err(<<"boom">>, 4, 0),
      Err(<<"context", "window", "ran", "out", "of", "room">>, 30, 0) }

ToRunEval(p) == RunEvalOn(p, TimeoutOutputs, TimeoutErrors) /\ UNCHANGED otherVars

ToRetryEval(p) == RetryEvalOn(p, TimeoutOutputs, TimeoutErrors) /\ UNCHANGED otherVars

TimeoutNext ==
    \E p \in Procs :
        \/ \E a \in TimeoutArgs : Invoke(p, a)
        \/ BuildDigest(p)
        \/ ToRunEval(p)
        \/ ToRetryEval(p)
        \/ EvalHang(p)
        \/ EvalTimeout(p)
        \/ ValidateAndAppend(p)

SpecTimeout == Init /\ [][TimeoutNext]_vars

\* C23: an evaluator call that gets no answer is ended by a timeout, for both
\* evaluators: a blocked call can always take its timeout step, and the
\* invocation then ends with status failed and one more failure record.
C23_EvaluatorCallBounded ==
    \A p \in Procs :
        /\ inv[p].pc = "blocked" => ENABLED EvalTimeout(p)
        /\ (inv[p].pc = "done" /\ inv[p].error = TimeoutExpired)
            => /\ inv[p].status = "failed"
               /\ entries[inv[p].slug] = inv[p].entries0
               /\ Len(failures[inv[p].slug]) = Len(inv[p].failures0) + 1
(***************************************************************************)
(* _parse_codex_rollout_jsonl.  A JSON value is a tagged record: a string, *)
(* an object as the list of its <<key, value>> pairs in insertion order,   *)
(* or null.  The output text of a function_call_output is written as what  *)
(* follows "Process exited with code " in it ("" when it has no such       *)
(* line).                                                                  *)
(***************************************************************************)
MaxRolloutLines == 2

Str(text) == [t |-> "str", text |-> text, dict |-> <<>>]

Dict(pairs) == [t |-> "dict", text |-> "", dict |-> pairs]

None == [t |-> "none", text |-> "", dict |-> <<>>]

PatchText == "*** Begin Patch ..."

\* json.loads on the texts met here; any other text raises JSONDecodeError
JsonDecode ==
    [text \in {"{\"command\": \"ls\"}", "{\"patch\": \"*** Begin Patch ...\"}"} |->
        IF text = "{\"command\": \"ls\"}"
        THEN Dict(<< <<"command", Str("ls")>> >>)
        ELSE Dict(<< <<"patch", Str(PatchText)>> >>)]

\* _safe_json_loads, lines 536-542
SafeJsonLoads(value) ==
    IF value.t # "str" THEN value
    ELSE IF value.text \in DOMAIN JsonDecode THEN JsonDecode[value.text]
    ELSE value

\* one line of the rollout file
RolloutLine(outer, item, role, text, name, arguments, status, input, output) ==
    [outer |-> outer, item |-> item, role |-> role, text |-> text, name |-> name,
     arguments |-> arguments, status |-> status, input |-> input, output |-> output]

OtherLine(outer) == RolloutLine(outer, "", "", "", "", None, "", None, "")

MessageLine(role, text) ==
    RolloutLine("response_item", "message", role, text, "", None, "", None, "")

FunctionCallLine(name, arguments) ==
    RolloutLine("response_item", "function_call", "", "", name, arguments, "", None, "")

CustomToolCallLine(name, status, input) ==
    RolloutLine("response_item", "custom_tool_call", "", "", name, None, status, input, "")

FunctionCallOutputLine(output) ==
    RolloutLine("response_item", "function_call_output", "", "", "", None, "", None, output)

ReasoningLine(text) ==
    RolloutLine("response_item", "reasoning", "", text, "", None, "", None, "")

ExecOutputs == {"", "0", "1", "\\d"}

RolloutLines ==
    {OtherLine(o) : o \in {"blank", "not json", "session_meta", "event_msg"}}
        \cup {MessageLine("user", "Hi"), MessageLine("assistant", ""),
              MessageLine("system", "Hi")}
        \cup {FunctionCallLine("Bash", Str("{\"command\": \"ls\"}")),
              FunctionCallLine("apply_patch", Str(PatchText))}
        \cup {CustomToolCallLine("apply_patch", "completed", Str(PatchText)),
              CustomToolCallLine("apply_patch", "", Dict(<< <<"patch", Str(PatchText)>> >>)),
              CustomToolCallLine("view_image", "", None)}
        \cup {FunctionCallOutputLine(o) : o \in ExecOutputs}
        \cup {ReasoningLine("Thoughts"), ReasoningLine("")}
        \cup {RolloutLine("response_item", "web_search_call", "", "", "", None, "", None, "")}

\* a content block of a logline
RlBlock(type, text, name, input, is_error) ==
    [type |-> type, text |-> text, name |-> name, input |-> input, is_error |-> is_error]

\* a logline: {"type": role, "timestamp": ts, "message": {"role", "content"}}
Logline(role, content) == [type |-> role, role |-> role, content |-> content]

\* _codex_convert_message_content, lines 568-590, on one input_text block
CodexConvertMessageContent(text) ==
    IF text # "" THEN <<RlBlock("text", text, "", None, FALSE)>> ELSE <<>>

InitRollout ==
    /\ entries = EmptyLedgers
    /\ failures = EmptyLedgers
    /\ legacy = [root |-> {}, actors |-> {}]
    /\ inv = IdleInvs
    /\ started = 0
    /\ sel = IdleSel
    /\ bud = IdleBud
    /\ dig = IdleDig
    /\ bf = IdleBf
    /\ ap = IdleAp
    /\ \E lines \in SeqsUpTo(RolloutLines, MaxRolloutLines) :
            rl = [pc |-> "loop", lines |-> lines, i |-> 1, loglines |-> <<>>,
                  meta |-> FALSE]
    /\ pt = IdlePt
    /\ sv = IdleSv

RlAt == rl.lines[rl.i]

RlReading == rl.pc = "loop" /\ rl.i <= Len(rl.lines)

\* lines 607-616, 629-630, 634-635 and the fall through at 699: a blank line,
\* a line that is not JSON, another outer type, a role or an item type the
\* parser does not know
RlSkip ==
    /\ RlReading
    /\ \/ RlAt.outer \notin {"session_meta", "response_item"}
       \/ /\ RlAt.outer = "response_item"
          /\ \/ RlAt.item \notin {"message", "function_call", "custom_tool_call",
                                  "function_call_output", "reasoning"}
             \/ RlAt.item = "message" /\ RlAt.role \notin {"user", "assistant"}
    /\ rl' = [rl EXCEPT !.i = @ + 1]
    /\ UNCHANGED <<pipeVars, sel, bud, dig, bf, ap, pt, sv>>

\* lines 618-627
RlMeta ==
    /\ RlReading
    /\ RlAt.outer = "session_meta"
    /\ rl' = [rl EXCEPT !.i = @ + 1, !.meta = TRUE]
    /\ UNCHANGED <<pipeVars, sel, bud, dig, bf, ap, pt, sv>>

\* lines 632-639
RlMessage ==
    /\ RlReading
    /\ RlAt.outer = "response_item" /\ RlAt.item = "message"
    /\ RlAt.role \in {"user", "assistant"}
    /\ rl' = [rl EXCEPT !.i = @ + 1,
                        !.loglines = Append(@, Logline(RlAt.role,
                                            CodexConvertMessageContent(RlAt.text)))]
    /\ UNCHANGED <<pipeVars, sel, bud, dig, bf, ap, pt, sv>>

\* lines 641-649
RlFunctionCall ==
    /\ RlReading
    /\ RlAt.outer = "response_item" /\ RlAt.item = "function_call"
    /\ LET args == SafeJsonLoads(RlAt.arguments)
           tool_input == IF args.t = "dict" THEN args
                         ELSE Dict(<< <<"arguments", args>> >>)
           block == RlBlock("tool_use", "", RlAt.name, tool_input, FALSE)
       IN  rl' = [rl EXCEPT !.i = @ + 1,
                            !.loglines = Append(@, Logline("assistant", <<block>>))]
    /\ UNCHANGED <<pipeVars, sel, bud, dig, bf, ap, pt, sv>>

\* lines 651-667
RlCustomToolCall ==
    /\ RlReading
    /\ RlAt.outer = "response_item" /\ RlAt.item = "custom_tool_call"
    /\ LET with_status == IF RlAt.status # "" THEN << <<"status", Str(RlAt.status)>> >>
                          ELSE <<>>
           tool_input == IF RlAt.input.t = "dict" THEN Dict(with_status \o RlAt.input.dict)
                         ELSE IF RlAt.input.t # "none"
                         THEN Dict(with_status \o << <<"input", RlAt.input>> >>)
                         ELSE Dict(with_status)
           block == RlBlock("tool_use", "", RlAt.name, tool_input, FALSE)
       IN  rl' = [rl EXCEPT !.i = @ + 1,
                            !.loglines = Append(@, Logline("assistant", <<block>>))]
    /\ UNCHANGED <<pipeVars, sel, bud, dig, bf, ap, pt, sv>>

\* lines 669-675
RlFunctionCallOutput ==
    /\ RlReading
    /\ RlAt.outer = "response_item" /\ RlAt.item = "function_call_output"
    /\ LET is_error == InferIsErrorFromExecOutput(RlAt.output)
           block == RlBlock("tool_result", RlAt.output, "", None, is_error)
       IN  rl' = [rl EXCEPT !.i = @ + 1,
                            !.loglines = Append(@, Logline("assistant", <<block>>))]
    /\ UNCHANGED <<pipeVars, sel, bud, dig, bf, ap, pt, sv>>

\* lines 677-692: a reasoning item with no summary text adds nothing
RlReasoning ==
    /\ RlReading
    /\ RlAt.outer = "response_item" /\ RlAt.item = "reasoning"
    /\ LET block == RlBlock("thinking", RlAt.text, "", None, FALSE)
       IN  rl' = [rl EXCEPT !.i = @ + 1,
                            !.loglines = IF RlAt.text # ""
                                         THEN Append(@, Logline("assistant", <<block>>))
                                         ELSE @]
    /\ UNCHANGED <<pipeVars, sel, bud, dig, bf, ap, pt, sv>>

\* line 694
RlReturn ==
    /\ rl.pc = "loop" /\ rl.i > Len(rl.lines)
    /\ rl' = [rl EXCEPT !.pc = "returned"]
    /\ UNCHANGED <<pipeVars, sel, bud, dig, bf, ap, pt, sv>>

RolloutNext ==
    \/ RlSkip \/ RlMeta \/ RlMessage \/ RlFunctionCall \/ RlCustomToolCall
    \/ RlFunctionCallOutput \/ RlReasoning \/ RlReturn

\* one call of _parse_codex_rollout_jsonl on every bounded rollout file
SpecRollout == InitRollout /\ [][RolloutNext]_vars

\* the output has a "Process exited with code N" line with N a non-zero number
ExitedNonZero(output) == output \notin {"", "0", "\\d"}

\* C25: a function_call_output item adds one assistant logline holding one
\* tool_result block, and the block's is_error is TRUE exactly when the
\* output has a "Process exited with code N" line with N non-zero.
C25_IsErrorFromExitMarker ==
    [][(RlReading /\ RlAt.outer = "response_item" /\ RlAt.item = "function_call_output")
        => /\ Len(rl'.loglines) = Len(rl.loglines) + 1
           /\ LET e == rl'.loglines[Len(rl'.loglines)]
              IN  /\ e.type = "assistant" /\ Len(e.content) = 1
                  /\ e.content[1].type = "tool_result"
                  /\ e.content[1].is_error = ExitedNonZero(RlAt.output)]_vars
(***************************************************************************)
(* The tool_use branch of _build_changelog_digest for one block, with      *)
(* _parse_apply_patch_file_ops run line by line.  Here a text is the list  *)
(* of its lines, and a line is the directive prefix it starts with ("" for *)
(* none) and what follows the prefix; every text is far shorter than the   *)
(* 4000 and 12000 characters _truncate_text is called with.               *)
(***************************************************************************)
MaxPatchLines == 2

PatchLine(directive, rest) == [directive |-> directive, rest |-> rest]

BlankLine == PatchLine("", "")

OneLine(s) == <<PatchLine("", s)>>

AddFile == "*** Add File: "

UpdateFile == "*** Update File: "

DeleteFile == "*** Delete File: "

MoveTo == "*** Move to: "

Omitted == OneLine("[omitted]")

PatchLinesSet ==
    {PatchLine(AddFile, "src/new.py"), PatchLine(UpdateFile, "src/app.py"),
     PatchLine(UpdateFile, ""), PatchLine(DeleteFile, "src/old.py"),
     PatchLine(MoveTo, "src/app2.py"), PatchLine(MoveTo, ""), BlankLine}

PatchPayloads == SeqsUpTo(PatchLinesSet, MaxPatchLines)

\* str.strip() on a text: leading and trailing blank lines go
RECURSIVE StripText(_)
StripText(text) ==
    IF text = <<>> THEN <<>>
    ELSE IF Head(text) = BlankLine THEN StripText(Tail(text))
    ELSE IF text[Len(text)] = BlankLine THEN StripText(SubSeq(text, 1, Len(text) - 1))
    ELSE text

\* line 1157, raw.strip(): a prefix with nothing after it loses its last
\* space and is no longer the prefix of a directive
StripLine(line) == IF line.rest = "" THEN BlankLine ELSE line

\* _truncate_text, lines 1182-1190, on a text within max_chars
TruncateText(value) == StripText(value)

\* dict.get(key)
DictGet(d, key) ==
    IF \E i \in 1..Len(d.dict) : d.dict[i][1] = key
    THEN d.dict[CHOOSE i \in 1..Len(d.dict) : d.dict[i][1] = key][2]
    ELSE None

\* _tool_name_is_apply_patch, lines 1295-1298
ToolNameIsApplyPatch(tool_name) == tool_name \in {"apply_patch", "functions.apply_patch"}

\* _extract_patch_text, lines 1301-1310
ExtractPatchText(tool_input) ==
    IF tool_input.t = "str" THEN tool_input
    ELSE IF tool_input.t # "dict" THEN None
    ELSE IF DictGet(tool_input, "patch").t = "str"
            /\ StripText(DictGet(tool_input, "patch").text) # <<>>
    THEN DictGet(tool_input, "patch")
    ELSE IF DictGet(tool_input, "arguments").t = "str"
            /\ StripText(DictGet(tool_input, "arguments").text) # <<>>
    THEN DictGet(tool_input, "arguments")
    ELSE None

\* _extract_path_from_tool_input, lines 1313-1320 ("" for None)
ExtractPathFromToolInput(tool_input) ==
    IF tool_input.t # "dict" THEN ""
    ELSE IF DictGet(tool_input, "path").t = "str"
            /\ StripText(DictGet(tool_input, "path").text) # <<>>
    THEN StripText(DictGet(tool_input, "path").text)[1].rest
    ELSE ""

\* _summarize_tool_input, lines 1333-1347
SummarizeToolInput(tool_input) ==
    IF tool_input.t = "str" THEN Str(TruncateText(tool_input.text))
    ELSE IF tool_input.t = "dict"
    THEN Dict([i \in 1..Len(tool_input.dict) |->
                <<tool_input.dict[i][1],
                  IF tool_input.dict[i][2].t = "str"
                  THEN Str(TruncateText(tool_input.dict[i][2].text))
                  ELSE tool_input.dict[i][2]>>])
    ELSE tool_input

\* lines 1472-1475: the keys patch and arguments of a dict summary are replaced
RedactSummary(tool_name, input_summary) ==
    IF ToolNameIsApplyPatch(tool_name) /\ input_summary.t = "dict"
    THEN Dict([i \in 1..Len(input_summary.dict) |->
                <<input_summary.dict[i][1],
                  IF input_summary.dict[i][1] \in {"patch", "arguments"}
                  THEN Str(Omitted)
                  ELSE input_summary.dict[i][2]>>])
    ELSE input_summary

NoOps == [created |-> {}, modified |-> {}, deleted |-> {}, moved |-> <<>>]

\* the tool inputs that carry a patch, and one that names a path
ToolInputs(patch) ==
    {Str(patch),
     Dict(<< <<"patch", Str(patch)>> >>),
     Dict(<< <<"arguments", Str(patch)>> >>),
     Dict(<< <<"status", Str(OneLine("completed"))>>, <<"input", Str(patch)>> >>),
     Dict(<< <<"path", Str(OneLine("src/app.py"))>> >>)}

ToolNames == {"apply_patch", "functions.apply_patch", "Read"}

InitPatch ==
    /\ entries = EmptyLedgers
    /\ failures = EmptyLedgers
    /\ legacy = [root |-> {}, actors |-> {}]
    /\ inv = IdleInvs
    /\ started = 0
    /\ sel = IdleSel
    /\ bud = IdleBud
    /\ dig = IdleDig
    /\ bf = IdleBf
    /\ ap = IdleAp
    /\ rl = IdleRl
    /\ \E patch \in PatchPayloads, tool_name \in ToolNames :
        \E tool_input \in ToolInputs(patch) :
            pt = [pc |-> "tool_use", patch |-> patch, tool_name |-> tool_name,
                  tool_input |-> tool_input,
                  call |-> [tool |-> "", input |-> None, patch_snippet |-> None,
                            patch_files |-> {}, path_hint |-> ""],
                  lines |-> <<>>, i |-> 0, current_path |-> "", result |-> NoOps,
                  touched |-> NoOps]
    /\ sv = IdleSv

\* lines 1468-1485: the call record with its input summary, then the patch text
PtToolUse ==
    /\ pt.pc = "tool_use"
    /\ LET input_summary == RedactSummary(pt.tool_name, SummarizeToolInput(pt.tool_input))
           patch_text == ExtractPatchText(pt.tool_input)
           parses == ToolNameIsApplyPatch(pt.tool_name) /\ patch_text.t = "str"
                        /\ patch_text.text # <<>>
       IN  pt' = [pt EXCEPT
                !.call.tool = pt.tool_name,
                !.call.input = input_summary,
                \* lines 1152-1153 and 1156: a blank payload has no lines to read
                !.lines = IF parses /\ StripText(patch_text.text) # <<>>
                          THEN patch_text.text ELSE <<>>,
                !.i = 1,
                !.pc = IF parses THEN "parse" ELSE "path_hint"]
    /\ UNCHANGED <<pipeVars, sel, bud, dig, bf, ap, rl, sv>>

\* lines 1156-1177: one line of the payload
PtPatchLine ==
    /\ pt.pc = "parse" /\ pt.i <= Len(pt.lines)
    /\ LET line == StripLine(pt.lines[pt.i])
           path == line.rest
       IN  pt' = [pt EXCEPT
                !.i = @ + 1,
                !.current_path = IF line.directive \in {AddFile, UpdateFile, DeleteFile}
                                 THEN path ELSE @,
                !.result.created = IF line.directive = AddFile /\ path # ""
                                   THEN @ \cup {path} ELSE @,
                !.result.modified = IF line.directive = UpdateFile /\ path # ""
                                    THEN @ \cup {path} ELSE @,
                !.result.deleted = IF line.directive = DeleteFile /\ path # ""
                                   THEN @ \cup {path} ELSE @,
                !.result.moved = IF line.directive = MoveTo /\ pt.current_path # ""
                                    /\ path # ""
                                 THEN Append(@, [from |-> pt.current_path, to |-> path])
                                 ELSE @]
    /\ UNCHANGED <<pipeVars, sel, bud, dig, bf, ap, rl, sv>>

\* lines 1486-1503: the file operations go into the touched sets and the call
PtTouched ==
    /\ pt.pc = "parse" /\ pt.i > Len(pt.lines)
    /\ LET file_ops == pt.result
           patch_files == file_ops.created \cup file_ops.modified \cup file_ops.deleted
                            \cup {file_ops.moved[k].from : k \in 1..Len(file_ops.moved)}
                            \cup {file_ops.moved[k].to : k \in 1..Len(file_ops.moved)}
       IN  pt' = [pt EXCEPT
                !.touched = file_ops,
                !.call.patch_snippet =
                    Str(TruncateText(ExtractPatchText(pt.tool_input).text)),
                !.call.patch_files = patch_files,
                !.pc = "path_hint"]
    /\ UNCHANGED <<pipeVars, sel, bud, dig, bf, ap, rl, sv>>

\* lines 1505-1508 and 1517: the path hint, and the call is recorded
PtPathHint ==
    /\ pt.pc = "path_hint"
    /\ LET path_hint == ExtractPathFromToolInput(pt.tool_input)
       IN  pt' = [pt EXCEPT
                !.touched.modified = IF path_hint # "" THEN @ \cup {path_hint} ELSE @,
                !.call.path_hint = path_hint,
                !.pc = "done"]
    /\ UNCHANGED <<pipeVars, sel, bud, dig, bf, ap, rl, sv>>

PatchNext == PtToolUse \/ PtPatchLine \/ PtTouched \/ PtPathHint

\* one tool_use block of every bounded shape through _build_changelog_digest
SpecPatch == InitPatch /\ [][PatchNext]_vars

\* an Add/Update/Delete directive that names a path
Opens(line) == line.directive \in {AddFile, UpdateFile, DeleteFile} /\ line.rest # ""

\* the path of the last Add/Update/Delete directive before line k ("" for none)
LastOpened(lines, k) ==
    IF \E j \in 1..(k - 1) : Opens(lines[j])
    THEN lines[CHOOSE j \in 1..(k - 1) :
                /\ Opens(lines[j])
                /\ \A h \in (j + 1)..(k - 1) : ~Opens(lines[h])].rest
    ELSE ""

\* the moves the payload asks for: every "Move to:" with a destination,
\* attached to the path opened last
RECURSIVE MovesUpTo(_, _)
MovesUpTo(lines, k) ==
    IF k = 0 THEN <<>>
    ELSE IF lines[k].directive = MoveTo /\ lines[k].rest # ""
            /\ LastOpened(lines, k) # ""
    THEN Append(MovesUpTo(lines, k - 1),
                [from |-> LastOpened(lines, k), to |-> lines[k].rest])
    ELSE MovesUpTo(lines, k - 1)

MovesAttached == pt.result.moved = MovesUpTo(pt.lines, Len(pt.lines))

\* C26: when the payload has been read, moved holds every "Move to:" attached
\* to the path opened last by an Add/Update/Delete directive (none when no
\* path was opened), and a path that was updated and then moved is reported
\* in moved only: it is not in modified.
C26_MoveAttachesToLastOpened ==
    (pt.pc = "parse" /\ pt.i > Len(pt.lines)) =>
        /\ MovesAttached
        /\ \A k \in 1..Len(pt.result.moved) :
                pt.result.moved[k].from \notin pt.result.modified

\* the summary of the input holds the text of the patch as open text
CarriesPatch(summary, patch) ==
    /\ StripText(patch) # <<>>
    /\ \/ summary.t = "str" /\ summary.text = StripText(patch)
       \/ /\ summary.t = "dict"
          /\ \E i \in 1..Len(summary.dict) :
                /\ summary.dict[i][2].t = "str"
                /\ summary.dict[i][2].text = StripText(patch)

\* the tool input carries the patch text, as a raw string or under a key
InputCarriesPatch(tool_input, patch) == CarriesPatch(tool_input, StripText(patch))

\* C27: the recorded call of a tool whose name ends with apply_patch never
\* holds the patch text in its input summary, whichever field of the input
\* carried it.
C27_PatchRedacted ==
    (pt.pc = "done" /\ ToolNameIsApplyPatch(pt.tool_name)) =>
        ~CarriesPatch(pt.call.input, pt.patch)
(***************************************************************************)
(* The evaluator adapters after the process exited 0.  An output text is   *)
(* the list of its pieces: a markdown fence, prose without braces, a JSON  *)
(* object, an opening brace followed by text that is no JSON, an object    *)
(* whose braces are written \{ and \}.  Claude's stdout is such a text     *)
(* whose object is the response envelope, with structured_output or with   *)
(* a result string that is again such a text.                              *)
(***************************************************************************)
MaxOutputPieces == 3

\* a fence, its three backquotes written as apostrophes
FenceOpen == "'''json"

FenceClose == "'''"

Prose == "Here is the entry:"

Obj == "{\"summary\": \"Did X\", \"bullets\": [\"b\"]}"

OpenBrace == "{oops"

Escaped == "\\{\"summary\": \"Did X\", \"bullets\": [\"b\"]\\}"

OutputPieces == {FenceOpen, FenceClose, Prose, Obj, OpenBrace, Escaped}

OutputTexts == SeqsUpTo(OutputPieces, MaxOutputPieces)

\* the object the text Obj is the JSON of
ObjValue == Out("Did X", TRUE, <<"b">>, NONE)

\* json.loads(text) returns an object: the text is one JSON object
JsonLoadsOk(text) == text = <<Obj>>

\* str.find("{") and str.rfind("}"), as the piece the brace is in (0: none)
FindOpen(text) ==
    IF \E i \in 1..Len(text) : text[i] \in {Obj, OpenBrace, Escaped}
    THEN CHOOSE i \in 1..Len(text) :
            /\ text[i] \in {Obj, OpenBrace, Escaped}
            /\ \A j \in 1..(i - 1) : text[j] \notin {Obj, OpenBrace, Escaped}
    ELSE 0

RfindClose(text) ==
    IF \E i \in 1..Len(text) : text[i] \in {Obj, Escaped}
    THEN CHOOSE i \in 1..Len(text) :
            /\ text[i] \in {Obj, Escaped}
            /\ \A j \in (i + 1)..Len(text) : text[j] \notin {Obj, Escaped}
    ELSE 0

\* re.search(r"\\{.*\\}", raw, re.DOTALL), line 1968: the pattern asks for a
\* backslash before each brace, so it matches from the first \{ to the last \}
SalvageMatch(raw) == \E i \in 1..Len(raw) : raw[i] = Escaped

\* line 1971: json.loads of the match, which begins with a backslash
SalvageLoadsOk(raw) == FALSE

\* _extract_json_object, lines 1984-1997: "ok", or the error it raises
ExtractJsonObject(text) ==
    IF FindOpen(text) = 0 \/ RfindClose(text) = 0 \/ RfindClose(text) < FindOpen(text)
    THEN "Claude output did not contain a JSON object"
    ELSE IF FindOpen(text) = RfindClose(text) /\ text[FindOpen(text)] = Obj
    THEN "ok"
    ELSE "Claude output was not valid JSON"

\* _extract_json_from_result_string, lines 2000-2005: both patterns ask for a
\* backslash after the fence, so a fence is left in place
StripFences(text) == text

AdapterCall(evaluator, raw, structured, result) ==
    [pc |-> "run", evaluator |-> evaluator, raw |-> raw, structured |-> structured,
     result |-> result, returned |-> NoOut, raised |-> ""]

AdapterCalls ==
    {AdapterCall("codex", raw, FALSE, <<>>) : raw \in OutputTexts}
        \cup {AdapterCall("claude", raw, TRUE, <<>>) : raw \in OutputTexts}
        \cup {AdapterCall("claude", <<Obj>>, FALSE, result) : result \in OutputTexts}

InitSalvage ==
    /\ entries = EmptyLedgers
    /\ failures = EmptyLedgers
    /\ legacy = [root |-> {}, actors |-> {}]
    /\ inv = IdleInvs
    /\ started = 0
    /\ sel = IdleSel
    /\ bud = IdleBud
    /\ dig = IdleDig
    /\ bf = IdleBf
    /\ ap = IdleAp
    /\ rl = IdleRl
    /\ pt = IdlePt
    /\ sv \in AdapterCalls

\* lines 1961-1965: the output file is read and parsed as JSON
SvCodexLoads ==
    /\ sv.pc = "run" /\ sv.evaluator = "codex"
    /\ sv' = IF sv.raw = <<>>
             THEN [sv EXCEPT !.pc = "raised", !.raised = "codex output was empty"]
             ELSE IF JsonLoadsOk(sv.raw)
             THEN [sv EXCEPT !.pc = "returned", !.returned = ObjValue]
             ELSE [sv EXCEPT !.pc = "salvage"]
    /\ UNCHANGED <<pipeVars, sel, bud, dig, bf, ap, rl, pt>>

\* lines 1966-1974: the salvage pass of the codex adapter
SvCodexSalvage ==
    /\ sv.pc = "salvage" /\ sv.evaluator = "codex"
    /\ sv' = IF SalvageMatch(sv.raw) /\ SalvageLoadsOk(sv.raw)
             THEN [sv EXCEPT !.pc = "returned", !.returned = ObjValue]
             ELSE [sv EXCEPT !.pc = "raised",
                             !.raised = "codex output was not valid JSON"]
    /\ UNCHANGED <<pipeVars, sel, bud, dig, bf, ap, rl, pt>>

\* lines 2068-2074: the envelope is cut out of stdout; structured_output wins
SvClaudeEnvelope ==
    /\ sv.pc = "run" /\ sv.evaluator = "claude"
    /\ sv' = IF ExtractJsonObject(sv.raw) # "ok"
             THEN [sv EXCEPT !.pc = "raised", !.raised = ExtractJsonObject(sv.raw)]
             ELSE IF sv.structured
             THEN [sv EXCEPT !.pc = "returned", !.returned = ObjValue]
             ELSE [sv EXCEPT !.pc = "result"]
    /\ UNCHANGED <<pipeVars, sel, bud, dig, bf, ap, rl, pt>>

\* lines 2076-2085: the result string of the envelope
SvClaudeResult ==
    /\ sv.pc = "result" /\ sv.evaluator = "claude"
    /\ sv' = IF sv.result = <<>>
             THEN [sv EXCEPT !.pc = "raised",
                             !.raised = "Claude did not return structured_output"]
             ELSE IF ExtractJsonObject(StripFences(sv.result)) = "ok"
             THEN [sv EXCEPT !.pc = "returned", !.returned = ObjValue]
             ELSE [sv EXCEPT !.pc = "raised",
                             !.raised = ExtractJsonObject(StripFences(sv.result))]
    /\ UNCHANGED <<pipeVars, sel, bud, dig, bf, ap, rl, pt>>

SalvageNext == SvCodexLoads \/ SvCodexSalvage \/ SvClaudeEnvelope \/ SvClaudeResult

\* one call of each adapter on every bounded output text
SpecSalvage == InitSalvage /\ [][SalvageNext]_vars

\* the text the model answered with: codex's output file, claude's stdout,
\* or the result string of claude's envelope
AnswerText == IF sv.evaluator = "claude" /\ ~sv.structured THEN sv.result ELSE sv.raw

\* the text is no JSON but holds a {...} span that is a JSON object, between
\* fences or prose
EmbedsObject(text) ==
    /\ ~JsonLoadsOk(text)
    /\ \E i \in 1..Len(text) :
        /\ text[i] = Obj
        /\ \A j \in 1..Len(text) : j # i => text[j] \in {FenceOpen, FenceClose, Prose}

\* C28: an answer that is no JSON but holds a JSON object between markdown
\* fences or prose is salvaged: the adapter returns the parsed object, and
\* raises its invalid-output error only when no such span can be parsed.
C28_SalvageEmbeddedObject ==
    (sv.pc \in {"returned", "raised"} /\ EmbedsObject(AnswerText)) =>
        /\ sv.pc = "returned"
        /\ sv.returned = ObjValue

====
